---- MODULE Spec2Model ----
(***************************************************************************)
(* Verification model of brik-pipe-actions.                                *)
(*                                                                         *)
(* Part I: the validate-build-config action (main and its helpers).  One   *)
(* behaviour is one run of main(): Init draws the run's inputs (the build  *)
(* document, the runtime matrix, the action inputs, the state of the       *)
(* filesystem) and the actions are the consecutive steps of main().        *)
(*                                                                         *)
(* Strings that the code inspects character by character (commands) are   *)
(* sequences of one-character strings; strings that are only compared or   *)
(* tested for emptiness (stack, tool, version, issue codes) are TLA+       *)
(* strings.  A YAML value is a record [t, s]: t is "undef" (absent),       *)
(* "str" (a string, s its text) or "num" (a non-zero number, s its         *)
(* String() rendering).                                                    *)
(***************************************************************************)
EXTENDS Naturals, Sequences, FiniteSets, TLC

VARIABLES
    env,           \* what the filesystem holds: config, parseable YAML, matrix, schema
    rawConfig,     \* yaml.load(rawYaml)
    runtimeMatrix, \* runtimeMatrix.data
    strict,        \* input "strict"
    allowUnsafe,   \* input "allow_unsafe_commands"
    pc,            \* position in main()
    issues,        \* issues: ValidationIssue[]
    resolved,      \* resolved (config or degraded object)
    finalIssues,   \* finalIssues after the strict transform
    ok,            \* ok
    report,        \* content of validation-report.json
    resolvedFile,  \* content of build-config.resolved.json
    written,       \* evidence files present in evidenceDir
    outputs,       \* core.setOutput values
    failed,        \* core.setFailed was called
    tagEnv,        \* process.env of the tag-policy script
    tagPc,         \* position in the tag-policy script
    locals,        \* the script's top-level constants, once computed
    policyFiles,   \* files in <evidence root>/policy with their content
    ghOutput,      \* lines appended to GITHUB_OUTPUT, as key/value pairs
    exitCode,      \* exit code of the process ("0", "1"), once it has exited
    ciEnv,         \* process.env of the container input validator
    ciFs,          \* which of the context directory and the Dockerfile exist
    ciPc,          \* position in the container input validator
    ciLocals,      \* its top-level constants, once computed
    ciLog,         \* what it printed: the failure message or the OK record
    ciExit,        \* its exit code, once it has exited
    stConstraints, \* argument constraints of decideBuilder
    stPreferred,   \* argument preferred of decideBuilder (Unset when left out)
    stMode,        \* argument mode of modeRequiresPush
    stDecision,    \* value returned by decideBuilder, once called
    stPush,        \* value returned by modeRequiresPush, once called
    evEnv,         \* process.env of the build evidence exporter
    evPc,          \* position in its main()
    evFiles,       \* files under .audit/PIPE-BUILD with their content
    evOutput,      \* lines appended to GITHUB_OUTPUT by the exporter
    ccEnv,         \* process.env of container-cache-config
    ccPc,          \* position in container-cache-config
    ccLocals,      \* its variables cacheMode, cacheFrom, cacheTo, kanikoArgs, key
    ccOut,         \* the outputs it emitted, as key/value pairs in order
    ccNotices,     \* the ::notice:: lines it printed
    ccExit,        \* its exit code, once it has exited
    smEnv,         \* process.env of the smoke runner
    smResolved,    \* build-config.resolved.json as the smoke runner finds it
    smPc,          \* position in the smoke runner
    smFiles,       \* evidence files written under evidenceRoot
    smRuns,        \* the steps spawned so far, in order, with their exit status
    smExit         \* its exit code, once it has exited

validatorVars ==
    <<env, rawConfig, runtimeMatrix, strict, allowUnsafe, pc, issues, resolved,
      finalIssues, ok, report, resolvedFile, written, outputs, failed>>

tagVars == <<tagEnv, tagPc, locals, policyFiles, ghOutput, exitCode>>

inputsVars == <<ciEnv, ciFs, ciPc, ciLocals, ciLog, ciExit>>

strategyVars == <<stConstraints, stPreferred, stMode, stDecision, stPush>>

evidenceVars == <<evEnv, evPc, evFiles, evOutput>>

cacheVars == <<ccEnv, ccPc, ccLocals, ccOut, ccNotices, ccExit>>

smokeVars == <<smEnv, smResolved, smPc, smFiles, smRuns, smExit>>

vars == <<validatorVars, tagVars, inputsVars, strategyVars, evidenceVars, cacheVars, smokeVars>>

\* what a run of the validator leaves alone
notValidator == <<tagVars, inputsVars, strategyVars, evidenceVars, cacheVars, smokeVars>>

\* what a run of the tag-policy script leaves alone
notTag == <<validatorVars, inputsVars, strategyVars, evidenceVars, cacheVars, smokeVars>>

\* what a run of the container input validator leaves alone
notInputs == <<validatorVars, tagVars, strategyVars, evidenceVars, cacheVars, smokeVars>>

\* what a call of the strategy module leaves alone
notStrategy == <<validatorVars, tagVars, inputsVars, evidenceVars, cacheVars, smokeVars>>

\* what a run of the build evidence exporter leaves alone
notEvidence == <<validatorVars, tagVars, inputsVars, strategyVars, cacheVars, smokeVars>>

\* what a run of container-cache-config leaves alone
notCache == <<validatorVars, tagVars, inputsVars, strategyVars, evidenceVars, smokeVars>>

\* what a run of the smoke runner leaves alone
notSmoke == <<validatorVars, tagVars, inputsVars, strategyVars, evidenceVars, cacheVars>>

-----------------------------------------------------------------------------
(* Dynamically typed YAML values and the JavaScript coercions used on them. *)

\* a name-like value (stack, tool, version): s is a TLA+ string
UndefName == [t |-> "undef", s |-> ""]
StrName(x) == [t |-> "str", s |-> x]
\* a command value: s is a sequence of characters
UndefCmd == [t |-> "undef", s |-> <<>>]
StrCmd(x) == [t |-> "str", s |-> x]
NumCmd == [t |-> "num", s |-> <<"5">>]

\* JavaScript truthiness of a name-like value (x || ...)
TruthyName(v) == v.t = "num" \/ (v.t = "str" /\ v.s # "")
\* JavaScript truthiness of a command value (x || ..., filter(Boolean))
TruthyCmd(v) == v.t = "num" \/ (v.t = "str" /\ v.s # <<>>)
\* String(v || "") for a name-like value
StringOfName(v) == IF TruthyName(v) THEN v.s ELSE ""
\* String(v || "") for a command value
StringOfCmd(v) == IF TruthyCmd(v) THEN v.s ELSE <<>>

\* Boolean(flag ?? dflt): a flag is "undef", "true" or "false"
FlagValue(flag, dflt) == IF flag = "undef" THEN dflt ELSE flag = "true"

-----------------------------------------------------------------------------
(* String primitives: toLowerCase, includes, trim. *)

UpperLetters == <<"A", "B", "C", "D", "E", "F", "G", "H", "I", "J", "K", "L", "M", "N", "O", "P", "Q", "R", "S", "T", "U", "V", "W", "X", "Y", "Z">>

LowerLetters == <<"a", "b", "c", "d", "e", "f", "g", "h", "i", "j", "k", "l", "m", "n", "o", "p", "q", "r", "s", "t", "u", "v", "w", "x", "y", "z">>

UpperToLower ==
    [c \in {UpperLetters[i] : i \in 1..Len(UpperLetters)} |->
        LowerLetters[CHOOSE i \in 1..Len(UpperLetters) : UpperLetters[i] = c]]

LowerChar(c) == IF c \in DOMAIN UpperToLower THEN UpperToLower[c] ELSE c

ToLowerCase(s) == [i \in 1..Len(s) |-> LowerChar(s[i])]

Includes(s, pat) ==
    \E i \in 1..(Len(s) + 1) :
        /\ i + Len(pat) - 1 <= Len(s)
        /\ SubSeq(s, i, i + Len(pat) - 1) = pat

IsSpace(c) == c \in {" ", "\t", "\n", "\r"}

RECURSIVE TrimStart(_)
TrimStart(s) == IF s # <<>> /\ IsSpace(Head(s)) THEN TrimStart(Tail(s)) ELSE s

RECURSIVE TrimEnd(_)
TrimEnd(s) ==
    IF s # <<>> /\ IsSpace(s[Len(s)]) THEN TrimEnd(SubSeq(s, 1, Len(s) - 1)) ELSE s

Trim(s) == TrimEnd(TrimStart(s))

-----------------------------------------------------------------------------
(* String literals of the source. *)

\* "npm ci"
S_npm_ci == <<"n", "p", "m", " ", "c", "i">>

\* "pnpm install --frozen-lockfile"
S_pnpm_install == <<"p", "n", "p", "m", " ", "i", "n", "s", "t", "a", "l", "l", " ", "-", "-", "f", "r", "o", "z", "e", "n", "-", "l", "o", "c", "k", "f", "i", "l", "e">>

\* "yarn install --frozen-lockfile"
S_yarn_install == <<"y", "a", "r", "n", " ", "i", "n", "s", "t", "a", "l", "l", " ", "-", "-", "f", "r", "o", "z", "e", "n", "-", "l", "o", "c", "k", "f", "i", "l", "e">>

\* "npm run lint"
S_npm_run_lint == <<"n", "p", "m", " ", "r", "u", "n", " ", "l", "i", "n", "t">>

\* "npm test"
S_npm_test == <<"n", "p", "m", " ", "t", "e", "s", "t">>

\* "npm run build"
S_npm_run_build == <<"n", "p", "m", " ", "r", "u", "n", " ", "b", "u", "i", "l", "d">>

\* "poetry install --no-interaction --no-ansi"
S_poetry_install == <<"p", "o", "e", "t", "r", "y", " ", "i", "n", "s", "t", "a", "l", "l", " ", "-", "-", "n", "o", "-", "i", "n", "t", "e", "r", "a", "c", "t", "i", "o", "n", " ", "-", "-", "n", "o", "-", "a", "n", "s", "i">>

\* "python -m pip install -r requirements.txt"
S_pip_install == <<"p", "y", "t", "h", "o", "n", " ", "-", "m", " ", "p", "i", "p", " ", "i", "n", "s", "t", "a", "l", "l", " ", "-", "r", " ", "r", "e", "q", "u", "i", "r", "e", "m", "e", "n", "t", "s", ".", "t", "x", "t">>

\* "python -m ruff check ."
S_ruff == <<"p", "y", "t", "h", "o", "n", " ", "-", "m", " ", "r", "u", "f", "f", " ", "c", "h", "e", "c", "k", " ", ".">>

\* "python -m pytest -q"
S_pytest == <<"p", "y", "t", "h", "o", "n", " ", "-", "m", " ", "p", "y", "t", "e", "s", "t", " ", "-", "q">>

\* "python -m compileall ."
S_compileall == <<"p", "y", "t", "h", "o", "n", " ", "-", "m", " ", "c", "o", "m", "p", "i", "l", "e", "a", "l", "l", " ", ".">>

\* "./gradlew dependencies"
S_gradle_deps == <<".", "/", "g", "r", "a", "d", "l", "e", "w", " ", "d", "e", "p", "e", "n", "d", "e", "n", "c", "i", "e", "s">>

\* "mvn -q -DskipTests dependency:resolve"
S_mvn_resolve == <<"m", "v", "n", " ", "-", "q", " ", "-", "D", "s", "k", "i", "p", "T", "e", "s", "t", "s", " ", "d", "e", "p", "e", "n", "d", "e", "n", "c", "y", ":", "r", "e", "s", "o", "l", "v", "e">>

\* "./gradlew check"
S_gradle_check == <<".", "/", "g", "r", "a", "d", "l", "e", "w", " ", "c", "h", "e", "c", "k">>

\* "mvn -q -DskipTests verify"
S_mvn_verify == <<"m", "v", "n", " ", "-", "q", " ", "-", "D", "s", "k", "i", "p", "T", "e", "s", "t", "s", " ", "v", "e", "r", "i", "f", "y">>

\* "./gradlew test"
S_gradle_test == <<".", "/", "g", "r", "a", "d", "l", "e", "w", " ", "t", "e", "s", "t">>

\* "mvn test"
S_mvn_test == <<"m", "v", "n", " ", "t", "e", "s", "t">>

\* "./gradlew build"
S_gradle_build == <<".", "/", "g", "r", "a", "d", "l", "e", "w", " ", "b", "u", "i", "l", "d">>

\* "mvn -DskipTests package"
S_mvn_package == <<"m", "v", "n", " ", "-", "D", "s", "k", "i", "p", "T", "e", "s", "t", "s", " ", "p", "a", "c", "k", "a", "g", "e">>

\* "dotnet restore"
S_dotnet_restore == <<"d", "o", "t", "n", "e", "t", " ", "r", "e", "s", "t", "o", "r", "e">>

\* "dotnet test"
S_dotnet_test == <<"d", "o", "t", "n", "e", "t", " ", "t", "e", "s", "t">>

\* "dotnet build -c Release"
S_dotnet_build == <<"d", "o", "t", "n", "e", "t", " ", "b", "u", "i", "l", "d", " ", "-", "c", " ", "R", "e", "l", "e", "a", "s", "e">>

\* "go mod download"
S_go_mod == <<"g", "o", " ", "m", "o", "d", " ", "d", "o", "w", "n", "l", "o", "a", "d">>

\* "go test ./..."
S_go_test == <<"g", "o", " ", "t", "e", "s", "t", " ", ".", "/", ".", ".", ".">>

\* "go build ./..."
S_go_build == <<"g", "o", " ", "b", "u", "i", "l", "d", " ", ".", "/", ".", ".", ".">>

\* "|| true"
P_or_true == <<"|", "|", " ", "t", "r", "u", "e">>

\* "||:"
P_or_colon == <<"|", "|", ":">>

\* "; true"
P_semi_true == <<";", " ", "t", "r", "u", "e">>

\* "exit 0"
P_exit_0 == <<"e", "x", "i", "t", " ", "0">>

\* "set +e"
P_set_e == <<"s", "e", "t", " ", "+", "e">>

-----------------------------------------------------------------------------
(* Input pools: the command texts a document may carry. *)

\* "make build"
C_make == <<"m", "a", "k", "e", " ", "b", "u", "i", "l", "d">>

\* " make "
C_padded == <<" ", "m", "a", "k", "e", " ">>

\* "  "
C_blank == <<" ", " ">>

\* "npm run build || true"
C_or_true == <<"n", "p", "m", " ", "r", "u", "n", " ", "b", "u", "i", "l", "d", " ", "|", "|", " ", "t", "r", "u", "e">>

\* "x || TRUE"
C_OR_TRUE == <<"x", " ", "|", "|", " ", "T", "R", "U", "E">>

\* "x ||:"
C_or_colon == <<"x", " ", "|", "|", ":">>

\* "x; true"
C_semi_true == <<"x", ";", " ", "t", "r", "u", "e">>

\* "EXIT 0"
C_exit_0 == <<"E", "X", "I", "T", " ", "0">>

\* "set +e"
C_set_e == <<"s", "e", "t", " ", "+", "e">>

\* "x ||true"
C_near_miss == <<"x", " ", "|", "|", "t", "r", "u", "e">>

\* "TOKEN=x make"
C_token == <<"T", "O", "K", "E", "N", "=", "x", " ", "m", "a", "k", "e">>

\* "api_key=1 make"
C_api_key == <<"a", "p", "i", "_", "k", "e", "y", "=", "1", " ", "m", "a", "k", "e">>

-----------------------------------------------------------------------------
(* Helpers of the validator. *)

\* detectUnsafePattern with a seeded fault: the command is not lower-cased
detectUnsafePattern_CaseSensitive(cmd) ==
    \/ Includes(cmd, P_or_true)
    \/ Includes(cmd, P_or_colon)
    \/ Includes(cmd, P_semi_true)
    \/ Includes(cmd, P_exit_0)
    \/ Includes(cmd, P_set_e)

\* detectUnsafePattern(cmd)
detectUnsafePattern(cmd) ==
    LET s == ToLowerCase(cmd)
    IN  \/ Includes(s, P_or_true)
        \/ Includes(s, P_or_colon)
        \/ Includes(s, P_semi_true)
        \/ Includes(s, P_exit_0)
        \/ Includes(s, P_set_e)

\* the five stacks of type Stack
Stacks == {"node", "python", "java", "dotnet", "go"}

\* stackToolAllowlist()[stack]
stackToolAllowlist(stack) ==
    CASE stack = "node" -> {"npm", "pnpm", "yarn"}
      [] stack = "python" -> {"pip", "poetry"}
      [] stack = "java" -> {"maven", "gradle"}
      [] stack = "dotnet" -> {"dotnet"}
      [] stack = "go" -> {"go"}

\* defaultsByStack(stack, toolKind), for a stack of the switch
defaultsByStack(stack, toolKind) ==
    CASE stack = "node" ->
            [install |-> IF toolKind = "pnpm" THEN S_pnpm_install
                         ELSE IF toolKind = "yarn" THEN S_yarn_install
                         ELSE S_npm_ci,
             lint |-> S_npm_run_lint, test |-> S_npm_test, build |-> S_npm_run_build]
      [] stack = "python" ->
            [install |-> IF toolKind = "poetry" THEN S_poetry_install ELSE S_pip_install,
             lint |-> S_ruff, test |-> S_pytest, build |-> S_compileall]
      [] stack = "java" ->
            [install |-> IF toolKind = "gradle" THEN S_gradle_deps ELSE S_mvn_resolve,
             lint |-> IF toolKind = "gradle" THEN S_gradle_check ELSE S_mvn_verify,
             test |-> IF toolKind = "gradle" THEN S_gradle_test ELSE S_mvn_test,
             build |-> IF toolKind = "gradle" THEN S_gradle_build ELSE S_mvn_package]
      [] stack = "dotnet" ->
            [install |-> S_dotnet_restore, lint |-> <<>>, test |-> S_dotnet_test,
             build |-> S_dotnet_build]
      [] stack = "go" ->
            [install |-> S_go_mod, lint |-> <<>>, test |-> S_go_test, build |-> S_go_build]

\* the indices of the matrix entries whose runtime.name is stack
MatrixHits(matrix, stack) == {i \in 1..Len(matrix) : matrix[i].runtime.name = stack}

\* findMatrixStack throws: no entry of matrix.stacks has runtime.name = stack
findMatrixStackThrows(matrix, stack) == MatrixHits(matrix, stack) = {}

\* findMatrixStack(matrix, stack) when it does not throw: the first matching entry
findMatrixStack(matrix, stack) ==
    LET hits == MatrixHits(matrix, stack)
    IN  matrix[CHOOSE i \in hits : \A j \in hits : i <= j]

\* isVersionAllowed with a seeded fault: an empty supportedVersions falls through to
\* allowedVersions (|| in place of ??)
isVersionAllowed_FallsThrough(matrixStack, version) ==
    LET allowed == IF matrixStack.supportedVersions.t = "obj"
                          \/ (matrixStack.supportedVersions.t = "arr"
                                /\ matrixStack.supportedVersions.v # {})
                       THEN matrixStack.supportedVersions
                   ELSE IF matrixStack.allowedVersions.t # "undef"
                       THEN matrixStack.allowedVersions
                   ELSE [t |-> "arr", v |-> {}]
    IN  IF allowed.t # "arr" \/ allowed.v = {} THEN TRUE ELSE version \in allowed.v

\* isVersionAllowed(matrixStack, version).ok; an allowlist is [t, v]: t is "undef",
\* "arr" (an array, v its elements) or "obj" (a value that is not an array)
isVersionAllowed(matrixStack, version) ==
    LET allowed == IF matrixStack.supportedVersions.t # "undef"
                       THEN matrixStack.supportedVersions
                   ELSE IF matrixStack.allowedVersions.t # "undef"
                       THEN matrixStack.allowedVersions
                   ELSE [t |-> "arr", v |-> {}]
    IN  IF allowed.t # "arr" \/ allowed.v = {} THEN TRUE ELSE version \in allowed.v

\* one ValidationIssue (message and suggestion are texts derived from these fields)
Issue(level, code, path) == [level |-> level, code |-> code, path |-> path]

\* a resolution that never injects the default: (rawValue || "").trim()
ResolveCommand_RawOnly(rawValue, default) ==
    Trim(IF TruthyCmd(rawValue) THEN rawValue.s ELSE <<>>)

\* the resolved command: (rawValue || default || "").trim()
ResolveCommand(rawValue, default) ==
    Trim(IF TruthyCmd(rawValue) THEN rawValue.s ELSE default)

\* resolveConfig throws: no matrix entry, no defaults for the stack (defaults.install
\* of undefined), or .trim() of a value that is not a string
resolveConfigThrows(raw, matrix) ==
    \/ findMatrixStackThrows(matrix, raw.stack.s)
    \/ raw.stack.s \notin Stacks
    \/ \E c \in {"install", "lint", "test", "build"} : raw.commands[c].t = "num"

\* resolveConfig(raw, matrix) when it does not throw
resolveConfig(raw, matrix) ==
    LET stack == raw.stack.s
        matrixStack == findMatrixStack(matrix, stack)
        runtimeVersion == IF TruthyName(raw.runtime.version) THEN raw.runtime.version.s
                          ELSE StringOfName(matrixStack.defaultVersion)
        toolKind ==
            IF TruthyName(raw.tool.kind) THEN raw.tool.kind.s
            ELSE IF TruthyName(matrixStack.toolchain.packageManagers.default)
                THEN matrixStack.toolchain.packageManagers.default.s
            ELSE StringOfName(matrixStack.toolchain.buildTools.default)
        defaults == defaultsByStack(stack, toolKind)
    IN  [schemaVersion |-> raw.schemaVersion,
         stack |-> stack,
         runtime |-> [version |-> runtimeVersion],
         tool |-> [kind |-> toolKind],
         flags |-> [runLint |-> FlagValue(raw.flags.runLint, FALSE),
                    runTests |-> FlagValue(raw.flags.runTests, TRUE)],
         commands |-> [install |-> ResolveCommand(raw.commands.install, defaults.install),
                       lint |-> ResolveCommand(raw.commands.lint, defaults.lint),
                       test |-> ResolveCommand(raw.commands.test, defaults.test),
                       build |-> ResolveCommand(raw.commands.build, defaults.build)]]

\* the IIFE of main that computes resolved; resolveConfig's exception is caught
BestEffortResolved(raw, matrix) ==
    IF ~TruthyName(raw.stack)
        THEN [note |-> "could not resolve (stack missing)", raw |-> raw]
    ELSE IF resolveConfigThrows(raw, matrix)
        THEN [note |-> "resolution failed", error |-> "thrown", raw |-> raw]
    ELSE resolveConfig(raw, matrix)

-----------------------------------------------------------------------------
(* Schema validation: validate(rawConfig) with schemas/build.schema.json and   *)
(* formatAjvErrors.  The schema's constraints are those its regression tests  *)
(* exercise: schemaVersion and stack required, stack an enum, minLength 1 on  *)
(* runtime.version, tool.kind and the commands, string-typed commands.        *)

SchemaFieldErrors(v, path, isCmd) ==
    IF v.t = "num" THEN <<Issue("error", "SCHEMA_TYPE", path)>>
    ELSE IF v.t = "str" /\ (IF isCmd THEN v.s = <<>> ELSE v.s = "")
        THEN <<Issue("error", "SCHEMA_MINLENGTH", path)>>
    ELSE <<>>

formatAjvErrors(raw) ==
    IF raw.root # "object" THEN <<Issue("error", "SCHEMA_TYPE", "(root)")>>
    ELSE   (IF raw.schemaVersion = "undef"
                THEN <<Issue("error", "SCHEMA_REQUIRED", "(root)")>> ELSE <<>>)
        \o (IF raw.stack.t = "undef"
                THEN <<Issue("error", "SCHEMA_REQUIRED", "(root)")>>
            ELSE IF raw.stack.s \notin Stacks
                THEN <<Issue("error", "SCHEMA_ENUM", "/stack")>>
            ELSE <<>>)
        \o SchemaFieldErrors(raw.runtime.version, "/runtime/version", FALSE)
        \o SchemaFieldErrors(raw.tool.kind, "/tool/kind", FALSE)
        \o SchemaFieldErrors(raw.commands.install, "/commands/install", TRUE)
        \o SchemaFieldErrors(raw.commands.lint, "/commands/lint", TRUE)
        \o SchemaFieldErrors(raw.commands.test, "/commands/test", TRUE)
        \o SchemaFieldErrors(raw.commands.build, "/commands/build", TRUE)

-----------------------------------------------------------------------------
(* The cross-field rules of main, in the order main evaluates them. *)

\* Cross-field rules only if stack is known enough
StackKnown(raw) == TruthyName(raw.stack) /\ raw.stack.s \in Stacks

\* RuleTool with a seeded fault: the matrix default is not consulted
RuleTool_NoDefault(raw, matrixStack) == StringOfName(raw.tool.kind)

\* the tool the allowlist rule checks
RuleTool(raw, matrixStack) ==
    IF TruthyName(raw.tool.kind) THEN raw.tool.kind.s
    ELSE StringOfName(matrixStack.toolchain.packageManagers.default)

\* ToolRule with a seeded fault: only a missing tool is reported
ToolRule_MissingOnly(raw, matrixStack) ==
    IF RuleTool(raw, matrixStack) = ""
        THEN <<Issue("error", "TOOL_NOT_ALLOWED", "/tool/kind")>>
    ELSE <<>>

\* Tool allowlist by stack
ToolRule(raw, matrixStack) ==
    LET tool == RuleTool(raw, matrixStack)
    IN  IF tool = "" \/ tool \notin stackToolAllowlist(raw.stack.s)
            THEN <<Issue("error", "TOOL_NOT_ALLOWED", "/tool/kind")>>
        ELSE <<>>

\* the version the runtime rule checks
RuleVersion(raw, matrixStack) ==
    IF TruthyName(raw.runtime.version) THEN raw.runtime.version.s
    ELSE StringOfName(matrixStack.defaultVersion)

\* Runtime version allowed by matrix
VersionRule(raw, matrixStack) ==
    LET runtimeVersion == RuleVersion(raw, matrixStack)
    IN  IF runtimeVersion = ""
            THEN <<Issue("error", "RUNTIME_VERSION_MISSING", "/runtime/version")>>
        ELSE IF ~isVersionAllowed(matrixStack, runtimeVersion)
            THEN <<Issue("error", "RUNTIME_VERSION_NOT_ALLOWED", "/runtime/version")>>
        ELSE <<>>

\* CoherenceRule with a seeded fault: the commands are not trimmed
CoherenceRule_NoTrim(raw) ==
    LET runTests == FlagValue(raw.flags.runTests, TRUE)
        runLint == FlagValue(raw.flags.runLint, FALSE)
        cmdTest == StringOfCmd(raw.commands.test)
        cmdLint == StringOfCmd(raw.commands.lint)
    IN     (IF runTests = FALSE /\ cmdTest # <<>>
                THEN <<[level |-> "warning", code |-> "TEST_CMD_IGNORED",
                        path |-> "/commands/test"]>> ELSE <<>>)
        \o (IF runLint = FALSE /\ cmdLint # <<>>
                THEN <<[level |-> "warning", code |-> "LINT_CMD_IGNORED",
                        path |-> "/commands/lint"]>> ELSE <<>>)

\* Flags + commands coherence
CoherenceRule(raw) ==
    LET runTests == FlagValue(raw.flags.runTests, TRUE)
        runLint == FlagValue(raw.flags.runLint, FALSE)
        cmdTest == Trim(StringOfCmd(raw.commands.test))
        cmdLint == Trim(StringOfCmd(raw.commands.lint))
    IN     (IF runTests = FALSE /\ cmdTest # <<>>
                THEN <<Issue("warning", "TEST_CMD_IGNORED", "/commands/test")>> ELSE <<>>)
        \o (IF runLint = FALSE /\ cmdLint # <<>>
                THEN <<Issue("warning", "LINT_CMD_IGNORED", "/commands/lint")>> ELSE <<>>)

\* allCmds: [install, lint, test, build].filter(Boolean).map(String)
AllCmds(raw) ==
    LET all == <<raw.commands.install, raw.commands.lint, raw.commands.test,
                 raw.commands.build>>
        kept == SelectSeq(all, TruthyCmd)
    IN  [i \in 1..Len(kept) |-> kept[i].s]

\* the for loop over allCmds: push one issue at the first hit and break
RECURSIVE ScanUnsafe(_)
ScanUnsafe(cmds) ==
    IF cmds = <<>> THEN <<>>
    ELSE IF detectUnsafePattern(Head(cmds))
        THEN <<Issue("error", "UNSAFE_COMMAND_PATTERN", "/commands")>>
    ELSE ScanUnsafe(Tail(cmds))

\* Unsafe command patterns
UnsafeRule(raw, allow) == IF ~allow THEN ScanUnsafe(AllCmds(raw)) ELSE <<>>

\* the rules block with a seeded fault: the unsafe-command scan runs first
CrossFieldIssues_UnsafeFirst(raw, matrixStack, allow) ==
    UnsafeRule(raw, allow) \o ToolRule(raw, matrixStack)
        \o VersionRule(raw, matrixStack) \o CoherenceRule(raw)

\* the issues the rules block pushes, given the matrix entry of the stack
CrossFieldIssues(raw, matrixStack, allow) ==
    ToolRule(raw, matrixStack) \o VersionRule(raw, matrixStack)
        \o CoherenceRule(raw) \o UnsafeRule(raw, allow)

\* BuildRule with a seeded fault: the raw build command is inspected, not the resolved
BuildRule_OnRaw(raw, res) ==
    IF TruthyName(raw.stack) /\ "commands" \in DOMAIN res
          /\ Trim(StringOfCmd(raw.commands.build)) = <<>>
        THEN <<[level |-> "error", code |-> "BUILD_COMMAND_MISSING",
                path |-> "/commands/build"]>>
    ELSE <<>>

\* Enforce "build command exists" after resolution (if stack present)
BuildRule(raw, res) ==
    IF TruthyName(raw.stack) /\ "commands" \in DOMAIN res /\ Trim(res.commands.build) = <<>>
        THEN <<Issue("error", "BUILD_COMMAND_MISSING", "/commands/build")>>
    ELSE <<>>

\* Promote with a seeded fault: the level is raised but the code keeps no prefix
Promote_NoPrefix(i) == IF i.level = "warning" THEN [i EXCEPT !.level = "error"] ELSE i

\* Strict mode: warnings become errors
Promote(i) ==
    IF i.level = "warning" THEN [i EXCEPT !.level = "error", !.code = "STRICT_" \o i.code]
    ELSE i

StrictTransform(list, isStrict) ==
    IF isStrict THEN [k \in 1..Len(list) |-> Promote(list[k])] ELSE list

\* finalIssues.every((i) => i.level !== "error")
NoError(list) == \A k \in 1..Len(list) : list[k].level # "error"

-----------------------------------------------------------------------------
(* State of one run. *)

EvidenceFiles ==
    {"build-config.raw.yml", "build-config.resolved.json", "validation-report.json",
     "validation-summary.md"}

\* a local or a file that has no value yet
NotYet == [unset |-> TRUE]

RunInit ==
    /\ pc = "start"
    /\ issues = <<>>
    /\ resolved = NotYet
    /\ finalIssues = <<>>
    /\ ok = FALSE
    /\ report = NotYet
    /\ resolvedFile = NotYet
    /\ written = {}
    /\ outputs = [validation_ok |-> "unset"]
    /\ failed = FALSE

inputs == <<env, rawConfig, runtimeMatrix, strict, allowUnsafe>>

-----------------------------------------------------------------------------
(* The inputs of a run.  Init draws them from families: each family varies   *)
(* the fields one group of rules reads, over every combination of its pools, *)
(* and leaves the other fields absent.                                       *)

\* the largest number of versions in a matrix allowlist
MaxAllow == 2

AllOk == [configExists |-> TRUE, yamlParses |-> TRUE, matrixFound |-> TRUE,
          schemaFound |-> TRUE]

Faults ==
    {[AllOk EXCEPT !.configExists = FALSE], [AllOk EXCEPT !.yamlParses = FALSE],
     [AllOk EXCEPT !.matrixFound = FALSE], [AllOk EXCEPT !.schemaFound = FALSE]}

Flags == {"undef", "true", "false"}

Doc(stack, tool, version, runTests, runLint, install, lint, test, build) ==
    [root |-> "object", schemaVersion |-> "1", stack |-> stack,
     tool |-> [kind |-> tool], runtime |-> [version |-> version],
     flags |-> [runLint |-> runLint, runTests |-> runTests],
     commands |-> [install |-> install, lint |-> lint, test |-> test, build |-> build]]

\* a document with only a stack
StackOnly(stack) ==
    Doc(stack, UndefName, UndefName, "undef", "undef", UndefCmd, UndefCmd, UndefCmd,
        UndefCmd)

\* documents that are not the usual mapping: a scalar, and one without schemaVersion
OddDocs ==
    {[StackOnly(UndefName) EXCEPT !.root = "scalar"],
     [StackOnly(StrName("node")) EXCEPT !.schemaVersion = "undef"]}

Entry(name, defaultVersion, supported, allowed, pmDefault, btDefault) ==
    [runtime |-> [name |-> name], defaultVersion |-> defaultVersion,
     supportedVersions |-> supported, allowedVersions |-> allowed,
     toolchain |-> [packageManagers |-> [default |-> pmDefault],
                    buildTools |-> [default |-> btDefault]]]

NoList == [t |-> "undef", v |-> {}]

\* the package manager a plain matrix names for a stack
PlainPm(name) ==
    CASE name = "python" -> "pip" [] name = "java" -> "maven" [] name = "dotnet" -> "dotnet"
      [] name = "go" -> "go" [] OTHER -> "npm"

\* a matrix with one plain entry for the stack of the document
PlainMatrix(stack) ==
    LET name == IF TruthyName(stack) THEN stack.s ELSE "node"
    IN  <<Entry(name, StrName("20"), NoList, NoList, StrName(PlainPm(name)), UndefName)>>

\* an entry of another runtime, placed before the entry searched for
OtherEntry == Entry("rust", StrName("1"), NoList, NoList, UndefName, UndefName)

StackPool == {UndefName, StrName("")} \cup {StrName(s) : s \in Stacks \cup {"ruby"}}

ToolPool ==
    {UndefName, StrName("")}
        \cup {StrName(x) : x \in {"npm", "pnpm", "yarn", "pip", "poetry", "maven", "gradle",
                                  "dotnet", "go", "conda"}}

PmPool == {UndefName, StrName(""), StrName("npm"), StrName("poetry"), StrName("conda")}

BtPool == {UndefName, StrName("maven"), StrName("gradle")}

Versions == {"18", "20", "99"}

VersionPool == {UndefName, StrName("")} \cup {StrName(x) : x \in Versions}

DefaultVersionPool == {UndefName, StrName(""), StrName("20")}

AllowPool ==
    {NoList, [t |-> "obj", v |-> {}]}
        \cup {[t |-> "arr", v |-> S] : S \in {X \in SUBSET Versions : Cardinality(X) <= MaxAllow}}

CoherencePool ==
    {UndefCmd, StrCmd(<<>>), StrCmd(C_blank), StrCmd(C_make), StrCmd(C_padded),
     StrCmd(C_or_true), NumCmd}

UnsafePool == {C_or_true, C_OR_TRUE, C_or_colon, C_semi_true, C_exit_0, C_set_e, C_near_miss}

BuildPool ==
    {UndefCmd, StrCmd(<<>>), StrCmd(C_blank), StrCmd(C_make), StrCmd(C_padded), NumCmd}

\* a fault of the filesystem; the document is never looked at past its parse
InitFaults ==
    /\ env \in Faults
    /\ rawConfig = StackOnly(StrName("node"))
    /\ runtimeMatrix = PlainMatrix(StrName("node"))
    /\ strict \in BOOLEAN
    /\ allowUnsafe = FALSE

\* stack, tool.kind and the matrix entry of the stack (absent, alone, or second)
InitTool ==
    /\ env = AllOk
    /\ \E stack \in StackPool, tool \in ToolPool :
          /\ rawConfig = Doc(stack, tool, UndefName, "undef", "undef", UndefCmd, UndefCmd,
                             UndefCmd, UndefCmd)
          /\ \/ runtimeMatrix = <<>>
             \/ \E pm \in PmPool, bt \in BtPool :
                   LET name == IF TruthyName(stack) THEN stack.s ELSE "node"
                   IN  runtimeMatrix = <<Entry(name, StrName("20"), NoList, NoList, pm, bt)>>
    /\ strict \in BOOLEAN
    /\ allowUnsafe = FALSE

\* documents that are not the usual mapping, and a matrix whose first entry is another's
InitOdd ==
    /\ env = AllOk
    /\ rawConfig \in OddDocs
    /\ runtimeMatrix \in {PlainMatrix(StrName("node")),
                          <<OtherEntry>> \o PlainMatrix(StrName("node")), <<OtherEntry>>}
    /\ strict \in BOOLEAN
    /\ allowUnsafe = FALSE

\* runtime.version and the version fields of the matrix entry
InitVersion ==
    /\ env = AllOk
    /\ \E version \in VersionPool :
          rawConfig = Doc(StrName("node"), UndefName, version, "undef", "undef", UndefCmd,
                          UndefCmd, UndefCmd, UndefCmd)
    /\ \E dv \in DefaultVersionPool, supported \in AllowPool, allowed \in AllowPool :
          runtimeMatrix = <<Entry("node", dv, supported, allowed, StrName("npm"), UndefName)>>
    /\ strict = FALSE
    /\ allowUnsafe = FALSE

\* the flags and the test and lint commands, strict or not
InitCoherence ==
    /\ env = AllOk
    /\ \E stack \in {UndefName, StrName("node")}, runTests \in Flags, runLint \in Flags,
          test \in CoherencePool, lint \in CoherencePool :
          /\ rawConfig = Doc(stack, UndefName, UndefName, runTests, runLint, UndefCmd, lint,
                             test, UndefCmd)
          /\ runtimeMatrix = PlainMatrix(stack)
    /\ strict \in BOOLEAN
    /\ allowUnsafe = FALSE

\* the four commands, each absent, harmless or carrying one text of UnsafePool
InitUnsafe ==
    /\ env = AllOk
    /\ \E stack \in {UndefName, StrName("node")}, u \in UnsafePool :
          LET pool == {UndefCmd, StrCmd(C_make), StrCmd(u)}
          IN  \E install \in pool, lint \in pool, test \in pool, build \in pool :
                /\ rawConfig = Doc(stack, UndefName, UndefName, "undef", "true", install,
                                   lint, test, build)
                /\ runtimeMatrix = PlainMatrix(stack)
    /\ strict = FALSE
    /\ allowUnsafe \in BOOLEAN

\* commands that carry a secret-like key name
InitSecret ==
    /\ env = AllOk
    /\ \E install \in {UndefCmd, StrCmd(C_api_key)},
          build \in {StrCmd(C_make), StrCmd(C_token), StrCmd(C_api_key)} :
          rawConfig = Doc(StrName("node"), UndefName, UndefName, "undef", "undef", install,
                          UndefCmd, UndefCmd, build)
    /\ runtimeMatrix = PlainMatrix(StrName("node"))
    /\ strict \in BOOLEAN
    /\ allowUnsafe = FALSE

\* documents that break several rules at once
InitOrder ==
    /\ env = AllOk
    /\ \E schemaVersion \in {"1", "undef"}, stack \in {UndefName, StrName("node")},
          tool \in {UndefName, StrName(""), StrName("gradle")},
          version \in {UndefName, StrName("99")},
          defaultVersion \in {UndefName, StrName("18")},
          runTests \in {"undef", "false"}, lint \in {UndefCmd, StrCmd(C_make)},
          build \in {UndefCmd, StrCmd(<<>>), StrCmd(C_blank)} :
          /\ rawConfig = [Doc(stack, tool, version, runTests, "undef", UndefCmd, lint,
                              StrCmd(C_or_true), build)
                              EXCEPT !.schemaVersion = schemaVersion]
          /\ runtimeMatrix = <<Entry("node", defaultVersion, NoList,
                                     [t |-> "arr", v |-> {"18"}], StrName("npm"),
                                     UndefName)>>
    /\ strict \in BOOLEAN
    /\ allowUnsafe \in BOOLEAN

\* what resolution reads: stack, tool and the install and build commands
InitResolve ==
    /\ env = AllOk
    /\ \E stack \in {StrName(s) : s \in Stacks \cup {"ruby"}},
          tool \in {UndefName, StrName("npm"), StrName("pnpm"), StrName("yarn"),
                    StrName("poetry"), StrName("gradle")},
          install \in {UndefCmd, StrCmd(<<>>), StrCmd(C_blank), StrCmd(C_make)},
          build \in BuildPool :
          /\ rawConfig = Doc(stack, tool, UndefName, "undef", "undef", install, UndefCmd,
                             UndefCmd, build)
          /\ runtimeMatrix = PlainMatrix(stack)
    /\ strict = FALSE
    /\ allowUnsafe = FALSE

\* the container input validator is not part of the run
InputsIdle ==
    /\ ciEnv = NotYet /\ ciFs = NotYet /\ ciPc = "idle"
    /\ ciLocals = NotYet /\ ciLog = NotYet /\ ciExit = "none"

\* the strategy module is not part of the run
StrategyIdle ==
    /\ stConstraints = NotYet /\ stPreferred = NotYet /\ stMode = NotYet
    /\ stDecision = NotYet /\ stPush = NotYet

\* the build evidence exporter is not part of the run
EvidenceIdle ==
    /\ evEnv = NotYet /\ evPc = "idle" /\ evFiles = NotYet /\ evOutput = <<>>

\* container-cache-config is not part of the run
CacheIdle ==
    /\ ccEnv = NotYet /\ ccPc = "idle" /\ ccLocals = NotYet
    /\ ccOut = <<>> /\ ccNotices = <<>> /\ ccExit = "none"

\* the smoke runner is not part of the run
SmokeIdle ==
    /\ smEnv = NotYet /\ smResolved = NotYet /\ smPc = [at |-> "idle", phase |-> "none"]
    /\ smFiles = {} /\ smRuns = <<>> /\ smExit = "none"

\* the tag-policy script is not part of a validator run
TagIdle ==
    /\ tagEnv = NotYet
    /\ tagPc = "idle"
    /\ locals = NotYet
    /\ policyFiles = NotYet
    /\ ghOutput = <<>>
    /\ exitCode = "none"

Init ==
    /\ \/ InitFaults
       \/ InitTool
       \/ InitOdd
       \/ InitVersion
       \/ InitCoherence
       \/ InitUnsafe
       \/ InitResolve
       \/ InitSecret
       \/ InitOrder
    /\ RunInit
    /\ TagIdle
    /\ InputsIdle /\ StrategyIdle /\ EvidenceIdle /\ CacheIdle /\ SmokeIdle

-----------------------------------------------------------------------------
(* The steps of main(). *)

\* if (!fs.existsSync(absConfigPath)): minimal evidence, outputs, throw
ConfigMissing ==
    /\ pc = "start"
    /\ ~env.configExists
    /\ report' = [ok |-> FALSE, strict |-> strict,
                  issues |-> <<Issue("error", "CONFIG_NOT_FOUND", "config_path")>>]
    /\ written' = written \cup {"validation-report.json", "validation-summary.md"}
    /\ outputs' = [outputs EXCEPT !.validation_ok = "false"]
    /\ pc' = "thrown"
    /\ UNCHANGED notValidator
    /\ UNCHANGED <<inputs, issues, resolved, finalIssues, ok, resolvedFile, failed>>

\* readFile(absConfigPath); writeFile(build-config.raw.yml)
ReadConfig ==
    /\ pc = "start"
    /\ env.configExists
    /\ written' = written \cup {"build-config.raw.yml"}
    /\ pc' = "load"
    /\ UNCHANGED notValidator
    /\ UNCHANGED <<inputs, issues, resolved, finalIssues, ok, report, resolvedFile,
                   outputs, failed>>

\* yaml.load, loadRuntimeMatrix, loadSchema: each throws when its input is unusable
LoadInputs ==
    /\ pc = "load"
    /\ pc' = IF env.yamlParses /\ env.matrixFound /\ env.schemaFound THEN "schema"
             ELSE "thrown"
    /\ UNCHANGED notValidator
    /\ UNCHANGED <<inputs, issues, resolved, finalIssues, ok, report, resolvedFile,
                   written, outputs, failed>>

\* validate(rawConfig); issues.push(...formatAjvErrors(validate.errors))
SchemaValidate ==
    /\ pc = "schema"
    /\ issues' = formatAjvErrors(rawConfig)
    /\ pc' = "rules"
    /\ UNCHANGED notValidator
    /\ UNCHANGED <<inputs, resolved, finalIssues, ok, report, resolvedFile, written,
                   outputs, failed>>

\* the cross-field rules block; findMatrixStack is called outside any try
CrossFieldRules ==
    /\ pc = "rules"
    /\ IF ~StackKnown(rawConfig)
           THEN pc' = "resolve" /\ issues' = issues
       ELSE IF findMatrixStackThrows(runtimeMatrix, rawConfig.stack.s)
           THEN pc' = "thrown" /\ issues' = issues
       ELSE /\ pc' = "resolve"
            /\ issues' = issues \o CrossFieldIssues(rawConfig,
                             findMatrixStack(runtimeMatrix, rawConfig.stack.s), allowUnsafe)
    /\ UNCHANGED notValidator
    /\ UNCHANGED <<inputs, resolved, finalIssues, ok, report, resolvedFile, written,
                   outputs, failed>>

\* resolved = (() => { try ... catch ... })(); then the build-command check
Resolve ==
    /\ pc = "resolve"
    /\ resolved' = BestEffortResolved(rawConfig, runtimeMatrix)
    /\ issues' = issues \o BuildRule(rawConfig, resolved')
    /\ pc' = "finalize"
    /\ UNCHANGED notValidator
    /\ UNCHANGED <<inputs, finalIssues, ok, report, resolvedFile, written, outputs, failed>>

\* finalIssues, ok
Finalize ==
    /\ pc = "finalize"
    /\ finalIssues' = StrictTransform(issues, strict)
    /\ ok' = NoError(finalIssues')
    /\ pc' = "evidence"
    /\ UNCHANGED notValidator
    /\ UNCHANGED <<inputs, issues, resolved, report, resolvedFile, written, outputs, failed>>

\* Evidence (always): resolved config, report, summary
WriteEvidence ==
    /\ pc = "evidence"
    /\ resolvedFile' = resolved
    /\ report' = [ok |-> ok, strict |-> strict, issues |-> finalIssues]
    /\ written' = written \cup {"build-config.resolved.json", "validation-report.json",
                                "validation-summary.md"}
    /\ pc' = "outputs"
    /\ UNCHANGED notValidator
    /\ UNCHANGED <<inputs, issues, resolved, finalIssues, ok, outputs, failed>>

\* Outputs; if (!ok) throw
SetOutputs ==
    /\ pc = "outputs"
    /\ outputs' = [outputs EXCEPT !.validation_ok = IF ok THEN "true" ELSE "false"]
    /\ pc' = IF ok THEN "done" ELSE "thrown"
    /\ UNCHANGED notValidator
    /\ UNCHANGED <<inputs, issues, resolved, finalIssues, ok, report, resolvedFile,
                   written, failed>>

\* main().catch((err) => core.setFailed(...))
Catch ==
    /\ pc = "thrown"
    /\ failed' = TRUE
    /\ pc' = "done"
    /\ UNCHANGED notValidator
    /\ UNCHANGED <<inputs, issues, resolved, finalIssues, ok, report, resolvedFile,
                   written, outputs>>

Next ==
    \/ ConfigMissing
    \/ ReadConfig
    \/ LoadInputs
    \/ SchemaValidate
    \/ CrossFieldRules
    \/ Resolve
    \/ Finalize
    \/ WriteEvidence
    \/ SetOutputs
    \/ Catch

Spec == Init /\ [][Next]_vars

-----------------------------------------------------------------------------
(* Vocabulary of the properties. *)

\* the run has ended (the process exits)
Ended == pc = "done"

\* the run went through the full pipeline and persisted its report
Reported == Ended /\ env.configExists /\ "validation-report.json" \in written

\* the positions of list that hold an issue with this code
Positions(list, code) == {k \in 1..Len(list) : list[k].code = code}

HasIssue(list, level, code, path) ==
    \E k \in 1..Len(list) : list[k] = [level |-> level, code |-> code, path |-> path]

\* a text that is not empty after trimming
NonBlank(s) == \E i \in 1..Len(s) : s[i] \notin {" ", "\t"}

\* the commands of the document that are non-empty strings
CommandTexts(raw) ==
    {raw.commands[c].s : c \in {c \in {"install", "lint", "test", "build"} :
                                    raw.commands[c].t = "str" /\ raw.commands[c].s # <<>>}}

\* pat occurs in s at position i, letter case aside
OccursAt(s, pat, i) ==
    /\ i + Len(pat) - 1 <= Len(s)
    /\ \A j \in 1..Len(pat) : LowerChar(s[i + j - 1]) = pat[j]

\* s contains, case-insensitively, one of the five failure-hiding patterns
HidesFailure(s) ==
    \E pat \in {P_or_true, P_or_colon, P_semi_true, P_exit_0, P_set_e} :
        \E i \in 1..Len(s) : OccursAt(s, pat, i)

\* the documented per-stack tools, as stack/tool pairs
AllowedPairs ==
    {<<"node", "npm">>, <<"node", "pnpm">>, <<"node", "yarn">>, <<"python", "pip">>,
     <<"python", "poetry">>, <<"java", "maven">>, <<"java", "gradle">>,
     <<"dotnet", "dotnet">>, <<"go", "go">>}

\* the matrix entry of the document's stack (the rules ran, so there is one)
TheEntry == findMatrixStack(runtimeMatrix, rawConfig.stack.s)

-----------------------------------------------------------------------------
(* Claims C1..C10: the validate-build-config run. *)

\* C1: no run ends in failure without a persisted validation report: whenever the
\* failure has been signalled (setFailed), validation-report.json was written before.
C1_ReportBeforeFailure == failed => "validation-report.json" \in written

\* C2: when a run terminates, pass or fail, all four evidence files have been written.
C2_AllEvidenceAtExit == Ended => EvidenceFiles \subseteq written

\* C3: the step fails iff the final issue list holds an error; report.ok and the
\* validation_ok output equal that predicate; no run fails with an error-free list.
C3_FailureOnlyFromOk ==
    Ended =>
        /\ "validation-report.json" \in written
        /\ failed <=> ~NoError(report.issues)
        /\ report.ok = NoError(report.issues)
        /\ outputs.validation_ok = (IF report.ok THEN "true" ELSE "false")

\* C4: a schema failure never short-circuits: for a parseable document with schema
\* errors the resolved file and the report are still written and the run fails with
\* ok = false.
C4_SchemaFailureStillReports ==
    (Ended /\ env = AllOk /\ formatAjvErrors(rawConfig) # <<>>) =>
        /\ {"build-config.resolved.json", "validation-report.json"} \subseteq written
        /\ report.ok = FALSE
        /\ failed

\* the persisted resolved config is the degraded object: a note and the raw document
Degraded ==
    /\ "note" \in DOMAIN resolvedFile
    /\ "commands" \notin DOMAIN resolvedFile
    /\ resolvedFile.raw = rawConfig

\* the persisted resolved config has a build command that is non-empty after trimming
HasBuild == "commands" \in DOMAIN resolvedFile /\ NonBlank(resolvedFile.commands.build)

\* the report holds the BUILD_COMMAND_MISSING error
BuildMissingReported ==
    HasIssue(report.issues, "error", "BUILD_COMMAND_MISSING", "/commands/build")

\* a command of the document is a value that is not a string
SomeCommandNotString ==
    \E c \in {"install", "lint", "test", "build"} : rawConfig.commands[c].t = "num"

\* C5 as stated: for a recognized stack, either the persisted resolved config has a
\* non-empty commands.build or the report contains BUILD_COMMAND_MISSING.
C5_BuildOrMissing ==
    (Reported /\ StackKnown(rawConfig)) => (HasBuild \/ BuildMissingReported)

\* C5 amended: for a recognized stack, either the persisted resolved config has a
\* non-empty commands.build, or the report contains BUILD_COMMAND_MISSING, or resolution
\* failed (a command that is not a string) and the persisted object is the degraded one,
\* without commands and without BUILD_COMMAND_MISSING.  Exactly one of the three holds,
\* and the check reads the resolved build command, not the raw one.
C5_BuildOrMissingOrDegraded ==
    (Reported /\ StackKnown(rawConfig)) =>
        IF SomeCommandNotString
            THEN Degraded /\ ~BuildMissingReported
        ELSE /\ "commands" \in DOMAIN resolvedFile
             /\ HasBuild <=> ~BuildMissingReported
             /\ ~TruthyCmd(rawConfig.commands.build) => HasBuild

\* a run that omits build, resolves it from the stack defaults and passes
C5_Witness ==
    /\ Reported /\ StackKnown(rawConfig)
    /\ rawConfig.commands.build.t = "undef"
    /\ HasBuild /\ ~BuildMissingReported
    /\ report.ok

\* C6: strict mode is a per-issue transform applied last to the full issue list: same
\* length and order as the untransformed list, every warning becomes an error whose
\* code is STRICT_ + the original code with the path unchanged, errors are unchanged,
\* nothing is added or removed and no warning remains; without strict the list is the
\* untransformed one.  The persisted report carries that list.
C6_StrictIsPerIssue ==
    Reported =>
        /\ Len(report.issues) = Len(issues)
        /\ \A k \in 1..Len(issues) :
              LET before == issues[k]
                  after == report.issues[k]
              IN  /\ after.path = before.path
                  /\ (before.level = "error" \/ ~strict) => after = before
                  /\ (before.level = "warning" /\ strict) =>
                        /\ after.level = "error"
                        /\ after.code = "STRICT_" \o before.code
        /\ strict => \A k \in 1..Len(report.issues) : report.issues[k].level = "error"

\* a strict run whose list holds an error followed by a promoted warning
C6_Witness ==
    /\ Reported /\ strict
    /\ \E j, k \in 1..Len(issues) :
          /\ j < k
          /\ issues[j].level = "error"
          /\ issues[k].level = "warning"
          /\ report.issues[k].code = "STRICT_" \o issues[k].code

\* some non-empty command string of the document hides a failure
SomeCommandHidesFailure == \E s \in CommandTexts(rawConfig) : HidesFailure(s)

UnsafeReported == Positions(report.issues, "UNSAFE_COMMAND_PATTERN")

\* C7 as stated: for any document, with the escape hatch off the report contains an
\* UNSAFE_COMMAND_PATTERN error if a non-empty command contains one of the patterns;
\* at most one such issue per run; none with the escape hatch on.
C7_UnsafeForAnyDocument ==
    Reported =>
        /\ (~allowUnsafe /\ SomeCommandHidesFailure) => UnsafeReported # {}
        /\ Cardinality(UnsafeReported) <= 1
        /\ allowUnsafe => UnsafeReported = {}

\* C7 amended: for a document with a recognized stack, with the escape hatch off the
\* report contains exactly one UNSAFE_COMMAND_PATTERN error (at /commands) if a
\* non-empty command contains one of the patterns, and none otherwise; none with the
\* escape hatch on; and none for a document whose stack is missing or unrecognized,
\* whose commands are not scanned.
C7_UnsafeForKnownStack ==
    Reported =>
        IF StackKnown(rawConfig) /\ ~allowUnsafe /\ SomeCommandHidesFailure
            THEN /\ Cardinality(UnsafeReported) = 1
                 /\ HasIssue(report.issues, "error", "UNSAFE_COMMAND_PATTERN", "/commands")
        ELSE UnsafeReported = {}

\* two commands carry an upper-case pattern and one issue is reported
C7_Witness ==
    /\ Reported /\ StackKnown(rawConfig) /\ ~allowUnsafe
    /\ Cardinality(UnsafeReported) = 1
    /\ rawConfig.commands.test = StrCmd(C_OR_TRUE)
    /\ rawConfig.commands.build = StrCmd(C_OR_TRUE)

\* the tool the allowlist rule is about: tool.kind when set, else the matrix default
EffectiveTool ==
    IF rawConfig.tool.kind.t # "undef" /\ rawConfig.tool.kind.s # ""
        THEN rawConfig.tool.kind.s
    ELSE IF TheEntry.toolchain.packageManagers.default.t # "undef"
        THEN TheEntry.toolchain.packageManagers.default.s
    ELSE ""

ToolNotAllowedReported == HasIssue(report.issues, "error", "TOOL_NOT_ALLOWED", "/tool/kind")

EffectiveVersion ==
    IF rawConfig.runtime.version.t # "undef" /\ rawConfig.runtime.version.s # ""
        THEN rawConfig.runtime.version.s
    ELSE IF TheEntry.defaultVersion.t # "undef" THEN TheEntry.defaultVersion.s
    ELSE ""

\* list is a declared, non-empty array of versions
NonEmptyList(list) == list.t = "arr" /\ list.v # {}

VersionMissingReported ==
    HasIssue(report.issues, "error", "RUNTIME_VERSION_MISSING", "/runtime/version")

VersionNotAllowedReported ==
    HasIssue(report.issues, "error", "RUNTIME_VERSION_NOT_ALLOWED", "/runtime/version")

\* C9 as stated: RUNTIME_VERSION_MISSING iff no effective version; otherwise
\* RUNTIME_VERSION_NOT_ALLOWED iff the entry declares a non-empty allowlist
\* (supportedVersions or allowedVersions) and the effective version is not in it.
C9_VersionAnyDeclaredList ==
    (Reported /\ StackKnown(rawConfig)) =>
        LET declared == IF NonEmptyList(TheEntry.supportedVersions)
                            THEN TheEntry.supportedVersions.v
                        ELSE IF NonEmptyList(TheEntry.allowedVersions)
                            THEN TheEntry.allowedVersions.v
                        ELSE {}
        IN  /\ VersionMissingReported <=> EffectiveVersion = ""
            /\ VersionNotAllowedReported <=>
                  (EffectiveVersion # "" /\ declared # {} /\ EffectiveVersion \notin declared)

\* C9 amended: RUNTIME_VERSION_MISSING iff no effective version; otherwise
\* RUNTIME_VERSION_NOT_ALLOWED iff the allowlist consulted is a non-empty array that
\* lacks the effective version, where the list consulted is supportedVersions whenever
\* the entry has that key (even empty or not an array) and allowedVersions only when
\* supportedVersions is absent; a consulted list that is absent, empty or not an array
\* accepts every version.
C9_VersionConsultedList ==
    (Reported /\ StackKnown(rawConfig)) =>
        LET consulted == IF TheEntry.supportedVersions.t # "undef"
                             THEN TheEntry.supportedVersions
                         ELSE TheEntry.allowedVersions
        IN  /\ VersionMissingReported <=> EffectiveVersion = ""
            /\ VersionNotAllowedReported <=>
                  (EffectiveVersion # "" /\ NonEmptyList(consulted)
                     /\ EffectiveVersion \notin consulted.v)
            /\ ~(VersionMissingReported /\ VersionNotAllowedReported)

\* an override outside supportedVersions is rejected although allowedVersions has it
C9_Witness ==
    /\ Reported /\ StackKnown(rawConfig)
    /\ NonEmptyList(TheEntry.supportedVersions)
    /\ NonEmptyList(TheEntry.allowedVersions)
    /\ EffectiveVersion \in TheEntry.allowedVersions.v
    /\ VersionNotAllowedReported

\* the issue of a coherence rule, as the report carries it under strict or not
IgnoredIssue(code, path) ==
    IF strict THEN [level |-> "error", code |-> "STRICT_" \o code, path |-> path]
    ELSE [level |-> "warning", code |-> code, path |-> path]

\* how many issues of the report stem from the coherence rule with this code
IgnoredCount(code) ==
    Cardinality(Positions(report.issues, code) \cup Positions(report.issues, "STRICT_" \o code))

-----------------------------------------------------------------------------
(* Claims C11..C14: resolution, secrets and issue order in the validator. *)

\* the resolved config was computed and persisted with its commands
ResolvedPersisted == Reported /\ "commands" \in DOMAIN resolvedFile

\* the stack/tool-specific default of a command of the persisted resolved config
DefaultOf(c) == defaultsByStack(resolvedFile.stack, resolvedFile.tool.kind)[c]

\* C11: each resolved command (install, lint, test, build) is the explicit raw value,
\* trimmed, when that value is non-empty after trimming, otherwise the stack/tool
\* default, otherwise the empty string; a whitespace-only raw value falls back to the
\* default like an absent one.
C11_ResolutionPrecedence ==
    ResolvedPersisted =>
        \A c \in {"install", "lint", "test", "build"} :
            resolvedFile.commands[c] =
                IF rawConfig.commands[c].t = "str" /\ NonBlank(rawConfig.commands[c].s)
                    THEN Trim(rawConfig.commands[c].s)
                ELSE DefaultOf(c)

\* the run validates {schemaVersion: 1, stack: node, tool: {kind: npm},
\* commands: {build: ''}} with every input file in place and strict off
EmptyBuildRun ==
    /\ Ended /\ env = AllOk /\ ~strict
    /\ rawConfig = Doc(StrName("node"), StrName("npm"), UndefName, "undef", "undef",
                       UndefCmd, UndefCmd, UndefCmd, StrCmd(<<>>))

SecretNames ==
    {<<"t", "o", "k", "e", "n">>, <<"p", "a", "s", "s", "w", "o", "r", "d">>,
     <<"s", "e", "c", "r", "e", "t">>, <<"k", "e", "y">>,
     <<"c", "r", "e", "d", "e", "n", "t", "i", "a", "l">>}

\* s contains a secret-like key name, letter case aside
SecretLike(s) == \E pat \in SecretNames : \E i \in 1..Len(s) : OccursAt(s, pat, i)

\* the document was read and one of its command strings has a secret-like key name
SomeCommandSecretLike ==
    /\ env.configExists /\ env.yamlParses
    /\ \E s \in CommandTexts(rawConfig) : SecretLike(s)

\* C13: a document whose command strings contain a secret-like key name (TOKEN,
\* PASSWORD, SECRET, KEY, CREDENTIAL, case-insensitive) is rejected before any evidence
\* file is written, so no persisted file (raw copy, resolved config, report) holds such
\* a command string.
C13_SecretsRejectedBeforeEvidence ==
    SomeCommandSecretLike =>
        /\ written = {}
        /\ Ended => failed

\* the place of an issue code in the order of detection, strict prefix aside
IssueRank(code) ==
    CASE code \in {"TOOL_NOT_ALLOWED", "STRICT_TOOL_NOT_ALLOWED"} -> 1
      [] code \in {"RUNTIME_VERSION_MISSING", "RUNTIME_VERSION_NOT_ALLOWED"} -> 2
      [] code \in {"TEST_CMD_IGNORED", "STRICT_TEST_CMD_IGNORED"} -> 3
      [] code \in {"LINT_CMD_IGNORED", "STRICT_LINT_CMD_IGNORED"} -> 4
      [] code = "UNSAFE_COMMAND_PATTERN" -> 5
      [] code = "BUILD_COMMAND_MISSING" -> 6
      [] OTHER -> 0

\* the document lacks both required fields
BothRequiredMissing == rawConfig.schemaVersion = "undef" /\ rawConfig.stack.t = "undef"

\* C14: the final issue list is in detection order and is not deduplicated: schema
\* issues first, then tool allowlist, runtime version (missing / not allowed), coherence
\* (test, then lint), unsafe-command pattern, build-command-missing; two schema issues
\* with the same code and path (both required fields missing) are both kept.
C14_DetectionOrder ==
    Reported =>
        /\ \A i, j \in 1..Len(report.issues) :
              i < j => IssueRank(report.issues[i].code) <= IssueRank(report.issues[j].code)
        /\ \A i, j \in 1..Len(report.issues) :
              (i < j /\ IssueRank(report.issues[i].code) > 0) =>
                  IssueRank(report.issues[i].code) < IssueRank(report.issues[j].code)
        /\ (rawConfig.root = "object" /\ BothRequiredMissing) =>
              Cardinality(Positions(report.issues, "SCHEMA_REQUIRED")) = 2

\* a report with a schema issue followed by one issue of every later group
C14_Witness ==
    /\ Reported
    /\ {IssueRank(report.issues[k].code) : k \in 1..Len(report.issues)} = 0..6

\* a report that keeps two equal schema issues
C14_WitnessRepeated ==
    /\ Reported /\ BothRequiredMissing
    /\ \E i, j \in 1..Len(report.issues) : i < j /\ report.issues[i] = report.issues[j]

-----------------------------------------------------------------------------
(***************************************************************************)
(* Part II: the image tagging policy script of                             *)
(* export-container-build-evidence (export.mjs, from "Enforce Image        *)
(* Tagging Policy").  One behaviour is one run of the script: Init draws   *)
(* process.env and the actions are the consecutive statements of the       *)
(* script.  Every string the script inspects is a sequence of              *)
(* one-character strings.  The runner provides GITHUB_OUTPUT and a         *)
(* writable evidence root.                                                 *)
(***************************************************************************)

\* an environment variable: unset, or set to a text
Unset == [set |-> FALSE, s |-> <<>>]
SetTo(x) == [set |-> TRUE, s |-> x]

\* env(name, fallback): process.env[name] ?? fallback
envOr(e, name, fallback) == IF e[name].set THEN e[name].s ELSE fallback

\* "true"
L_true == <<"t", "r", "u", "e">>

\* "false"
L_false == <<"f", "a", "l", "s", "e">>

\* "latest"
L_latest == <<"l", "a", "t", "e", "s", "t">>

\* "sha-"
L_sha_dash == <<"s", "h", "a", "-">>

\* "sha-<shortsha>"
L_placeholder == <<"s", "h", "a", "-", "<", "s", "h", "o", "r", "t", "s", "h", "a", ">">>

\* "refs/tags/"
L_refs_tags == <<"r", "e", "f", "s", "/", "t", "a", "g", "s", "/">>

\* String(v).toLowerCase() === "true"
toBool(v) == ToLowerCase(v) = L_true

\* String(b)
BoolText(b) == IF b THEN L_true ELSE L_false

\* s.split(sep), sep one character
RECURSIVE Split(_, _)
Split(s, sep) ==
    IF \A i \in 1..Len(s) : s[i] # sep THEN <<s>>
    ELSE LET i == CHOOSE k \in 1..Len(s) : s[k] = sep /\ \A j \in 1..(k - 1) : s[j] # sep
         IN  <<SubSeq(s, 1, i - 1)>> \o Split(SubSeq(s, i + 1, Len(s)), sep)

\* parts.join(sep)
RECURSIVE Join(_, _)
Join(parts, sep) ==
    IF parts = <<>> THEN <<>>
    ELSE IF Len(parts) = 1 THEN parts[1]
    ELSE parts[1] \o <<sep>> \o Join(Tail(parts), sep)

\* s.startsWith(p)
StartsWith(s, p) == Len(p) <= Len(s) /\ SubSeq(s, 1, Len(p)) = p

\* s.slice(0, n)
SliceTo(s, n) == SubSeq(s, 1, IF Len(s) < n THEN Len(s) ELSE n)

\* Split tags from comma-separated string. Trims whitespace and removes empties.
parseTags(input) ==
    LET parts == Split(input, ",")
        trimmed == [i \in 1..Len(parts) |-> Trim(parts[i])]
    IN  SelectSeq(trimmed, LAMBDA t : Len(t) > 0)

\* dedupe with a seeded fault: the keys are compared with their letter case
RECURSIVE dedupe_CaseSensitive(_)
dedupe_CaseSensitive(tags) ==
    IF tags = <<>> THEN <<>>
    ELSE <<Head(tags)>>
             \o dedupe_CaseSensitive(SelectSeq(Tail(tags), LAMBDA t : t # Head(tags)))

\* the loop of dedupe, with the set seen
RECURSIVE DedupeFrom(_, _)
DedupeFrom(tags, seen) ==
    IF tags = <<>> THEN <<>>
    ELSE LET k == ToLowerCase(Head(tags))
         IN  IF k \in seen THEN DedupeFrom(Tail(tags), seen)
             ELSE <<Head(tags)>> \o DedupeFrom(Tail(tags), seen \cup {k})

\* Deduplicate tags while preserving order.
dedupe(tags) == DedupeFrom(tags, {})

\* Normalize: lowercase 'latest' only (keep others as provided)
normalized(tags) ==
    [i \in 1..Len(tags) |-> IF ToLowerCase(tags[i]) = L_latest THEN L_latest ELSE tags[i]]

Digits == {"0", "1", "2", "3", "4", "5", "6", "7", "8", "9"}

HexChars == Digits \cup {"a", "b", "c", "d", "e", "f", "A", "B", "C", "D", "E", "F"}

\* (0|[1-9]\d*)
NumericId(part) ==
    /\ part # <<>>
    /\ \A i \in 1..Len(part) : part[i] \in Digits
    /\ part[1] = "0" => Len(part) = 1

\* SEMVER_RE.test(t): ^v(0|[1-9]\d*)\.(0|[1-9]\d*)\.(0|[1-9]\d*)$
SEMVER_RE(t) ==
    /\ t # <<>> /\ t[1] = "v"
    /\ LET parts == Split(Tail(t), ".")
       IN  Len(parts) = 3 /\ \A i \in 1..3 : NumericId(parts[i])

\* t.match(SHA_PREFIX_RE): ^sha-([0-9a-f]{7,64})$ with the i flag
SHA_PREFIX_RE(t) ==
    /\ Len(t) >= 4 + 7 /\ Len(t) <= 4 + 64
    /\ ToLowerCase(SubSeq(t, 1, 4)) = L_sha_dash
    /\ \A i \in 5..Len(t) : t[i] \in HexChars

\* t.match(SHA_HEX_RE): ^([0-9a-f]{7,64})$ with the i flag
SHA_HEX_RE(t) ==
    /\ Len(t) >= 7 /\ Len(t) <= 64
    /\ \A i \in 1..Len(t) : t[i] \in HexChars

\* Decide release mode (v1): explicit input release=true OR ref is refs/tags/vX.Y.Z
inferRelease(e, explicitRelease) ==
    IF explicitRelease THEN TRUE
    ELSE LET ref == envOr(e, "GITHUB_REF", <<>>)
         IN  IF ~StartsWith(ref, L_refs_tags) THEN FALSE
             ELSE SEMVER_RE(SubSeq(ref, Len(L_refs_tags) + 1, Len(ref)))

\* detectSemver with a seeded fault: the tags are looked at before the override
detectSemver_TagsFirst(tags, semverOverride) ==
    LET hits == SelectSeq(tags, SEMVER_RE)
    IN  IF hits # <<>> THEN hits[1]
        ELSE IF semverOverride # <<>> /\ SEMVER_RE(semverOverride) THEN semverOverride
        ELSE <<>>

\* Find a SemVer tag from tag list (v1 strict).
detectSemver(tags, semverOverride) ==
    IF semverOverride # <<>> /\ SEMVER_RE(semverOverride) THEN semverOverride
    ELSE LET hits == SelectSeq(tags, SEMVER_RE)
         IN  IF hits # <<>> THEN hits[1] ELSE <<>>

\* detectShaTag with a seeded fault: raw hex tags are looked for before sha- tags
detectShaTag_HexFirst(tags, shaSource) ==
    LET sha == ToLowerCase(shaSource)
        short == IF sha # <<>> THEN SliceTo(sha, 7) ELSE <<>>
        prefixed == SelectSeq(tags, SHA_PREFIX_RE)
        bare == SelectSeq(tags, SHA_HEX_RE)
    IN  IF bare # <<>>
            THEN LET hex == ToLowerCase(bare[1])
                 IN  [found |-> L_sha_dash \o SliceTo(hex, 7),
                      mismatch |-> /\ sha # <<>>
                                   /\ ~StartsWith(sha, hex)
                                   /\ ~StartsWith(sha, SliceTo(hex, 7))]
        ELSE IF prefixed # <<>>
            THEN LET hex == ToLowerCase(SubSeq(prefixed[1], 5, Len(prefixed[1])))
                 IN  [found |-> L_sha_dash \o hex,
                      mismatch |-> /\ sha # <<>>
                                   /\ ~StartsWith(sha, hex)
                                   /\ ~StartsWith(hex, short)]
        ELSE IF short # <<>>
            THEN [found |-> <<>>, expected |-> L_sha_dash \o short, mismatch |-> FALSE]
        ELSE [found |-> <<>>, expected |-> L_placeholder, mismatch |-> FALSE]

\* Detect sha tag: prefer sha-<hex>; a raw hex tag is accepted and canonicalized to
\* sha-<shortsha>; the result has no "expected" when a tag is found
detectShaTag(tags, shaSource) ==
    LET sha == ToLowerCase(shaSource)
        short == IF sha # <<>> THEN SliceTo(sha, 7) ELSE <<>>
        prefixed == SelectSeq(tags, SHA_PREFIX_RE)
        bare == SelectSeq(tags, SHA_HEX_RE)
    IN  IF prefixed # <<>>
            THEN LET hex == ToLowerCase(SubSeq(prefixed[1], 5, Len(prefixed[1])))
                 IN  [found |-> L_sha_dash \o hex,
                      mismatch |-> /\ sha # <<>>
                                   /\ ~StartsWith(sha, hex)
                                   /\ ~StartsWith(hex, short)]
        ELSE IF bare # <<>>
            THEN LET hex == ToLowerCase(bare[1])
                 IN  [found |-> L_sha_dash \o SliceTo(hex, 7),
                      mismatch |-> /\ sha # <<>>
                                   /\ ~StartsWith(sha, hex)
                                   /\ ~StartsWith(sha, SliceTo(hex, 7))]
        ELSE IF short # <<>>
            THEN [found |-> <<>>, expected |-> L_sha_dash \o short, mismatch |-> FALSE]
        ELSE [found |-> <<>>, expected |-> L_placeholder, mismatch |-> FALSE]

\* one failure reason; fixTag is the tag its fix text names between quotes
Reason(code, fixTag) == [code |-> code, fixTag |-> fixTag]

\* "v<major>.<minor>.<patch>"
L_semver_form ==
    <<"v", "<", "m", "a", "j", "o", "r", ">", ".", "<", "m", "i", "n", "o", "r", ">", ".",
      "<", "p", "a", "t", "c", "h", ">">>

\* latest policy
LatestRule(hasLatest, allowLatest) ==
    IF hasLatest /\ ~allowLatest THEN <<Reason("LATEST_FORBIDDEN", L_latest)>> ELSE <<>>

\* ShaRule with a seeded fault: the SHA tag is required whether or not the run pushes
ShaRule_IgnoresPush(push, detectedSha) ==
    IF detectedSha.found = <<>>
        THEN <<Reason("SHA_TAG_REQUIRED",
                      IF "expected" \in DOMAIN detectedSha /\ detectedSha.expected # <<>>
                          THEN detectedSha.expected
                      ELSE L_placeholder)>>
    ELSE <<>>

\* push requires SHA: the reason pushed when no SHA tag was found
ShaRule(push, detectedSha) ==
    IF push /\ detectedSha.found = <<>>
        THEN <<Reason("SHA_TAG_REQUIRED",
                      IF "expected" \in DOMAIN detectedSha /\ detectedSha.expected # <<>>
                          THEN detectedSha.expected
                      ELSE L_placeholder)>>
    ELSE <<>>

\* ShaNotice with a seeded fault: the notice is pushed whether or not the run pushes
ShaNotice_IgnoresPush(push, detectedSha) ==
    IF detectedSha.found # <<>> /\ detectedSha.mismatch
        THEN <<[code |-> "SHA_TAG_MISMATCH", note |-> detectedSha.found]>>
    ELSE <<>>

\* push requires SHA: the notice pushed when the tag found does not match the commit
ShaNotice(push, detectedSha) ==
    IF push /\ detectedSha.found # <<>> /\ detectedSha.mismatch
        THEN <<[code |-> "SHA_TAG_MISMATCH", note |-> detectedSha.found]>>
    ELSE <<>>

\* release requires SemVer
SemverRule(push, isRelease, detectedSemver) ==
    IF push /\ isRelease /\ detectedSemver = <<>>
        THEN <<Reason("SEMVER_REQUIRED_FOR_RELEASE", L_semver_form)>>
    ELSE <<>>

\* the verdict with a seeded fault: no downgrade when enforcement is off
Verdict_NoDowngrade(reasons, enforce) == IF Len(reasons) = 0 THEN "pass" ELSE "fail"

\* verdict
Verdict(reasons, enforce) ==
    LET verdict == IF Len(reasons) = 0 THEN "pass" ELSE "fail"
    IN  IF ~enforce /\ verdict = "fail" THEN "warn" ELSE verdict

\* a JSON value that is a text or null: x || null
JsonNull == [t |-> "null", s |-> <<>>]
OrNull(x) == IF x # <<>> THEN [t |-> "str", s |-> x] ELSE JsonNull

\* the constants the script computes from process.env up to the verdict
TagPolicy(e) ==
    LET push == toBool(envOr(e, "INPUT_PUSH", <<>>))
        allowLatest == toBool(envOr(e, "INPUT_ALLOW_LATEST", L_false))
        enforce == toBool(envOr(e, "INPUT_ENFORCE_TAG_POLICY", L_true))
        rawTags == parseTags(envOr(e, "INPUT_TAGS", <<>>))
        tags == dedupe(rawTags)
        tagsResolved == dedupe(normalized(tags))
        explicitRelease == toBool(envOr(e, "INPUT_RELEASE", L_false))
        isRelease == inferRelease(e, explicitRelease)
        sha == Trim(IF envOr(e, "INPUT_SHA", <<>>) # <<>> THEN envOr(e, "INPUT_SHA", <<>>)
                    ELSE envOr(e, "GITHUB_SHA", <<>>))
        detectedSha == detectShaTag(tagsResolved, sha)
        semverOverride == Trim(envOr(e, "INPUT_SEMVER", <<>>))
        detectedSemver == detectSemver(tagsResolved, semverOverride)
        hasLatest == \E i \in 1..Len(tagsResolved) : ToLowerCase(tagsResolved[i]) = L_latest
        reasons == LatestRule(hasLatest, allowLatest) \o ShaRule(push, detectedSha)
                       \o SemverRule(push, isRelease, detectedSemver)
        notices == ShaNotice(push, detectedSha)
    IN  [push |-> push, allowLatest |-> allowLatest, enforce |-> enforce,
         tagsResolved |-> tagsResolved, explicitRelease |-> explicitRelease,
         isRelease |-> isRelease, sha |-> sha, detectedSha |-> detectedSha,
         semverOverride |-> semverOverride, detectedSemver |-> detectedSemver,
         hasLatest |-> hasLatest, reasons |-> reasons, notices |-> notices,
         verdict |-> Verdict(reasons, enforce)]

\* Evidence payload (machine readable), schema name and timestamp left out
payload(e, l) ==
    [inputs |-> [push |-> l.push, tags_input |-> envOr(e, "INPUT_TAGS", <<>>),
                 allow_latest |-> l.allowLatest, release |-> l.explicitRelease,
                 semver_override |-> OrNull(l.semverOverride),
                 sha_override |-> envOr(e, "INPUT_SHA", <<>>) # <<>>,
                 enforce_tag_policy |-> l.enforce],
     detected |-> [is_release |-> l.isRelease,
                   sha_source |-> OrNull(IF l.sha # <<>> THEN SliceTo(l.sha, 7) \o <<"...">>
                                         ELSE <<>>),
                   detected_sha_tag |-> OrNull(l.detectedSha.found),
                   detected_semver_tag |-> OrNull(l.detectedSemver),
                   has_latest |-> l.hasLatest],
     resolved |-> [tags_resolved |-> l.tagsResolved],
     verdict |-> l.verdict,
     failure_reasons |-> l.reasons,
     notices |-> l.notices]

\* Human readable summary: the values md() prints, section by section
md(e, l) ==
    [Verdict |-> l.verdict, Push |-> l.push, Release |-> l.isRelease,
     AllowLatest |-> l.allowLatest, Input |-> envOr(e, "INPUT_TAGS", <<>>),
     Resolved |-> Join(l.tagsResolved, ","), ShaTag |-> l.detectedSha.found,
     SemverTag |-> l.detectedSemver, HasLatest |-> l.hasLatest,
     Failures |-> l.reasons, Notices |-> l.notices]

PolicyFileNames == {"policy-summary.json", "policy-summary.md"}

\* Input pools: the tags an INPUT_TAGS list may carry, and commit SHAs.

\* "Latest"
T_Latest == <<"L", "a", "t", "e", "s", "t">>

\* "latest"
T_latest == <<"l", "a", "t", "e", "s", "t">>

\* "v1.0.0"
T_v100 == <<"v", "1", ".", "0", ".", "0">>

\* "v1.2.3"
T_v123 == <<"v", "1", ".", "2", ".", "3">>

\* " v1.2.3 "
T_pad_v123 == <<" ", "v", "1", ".", "2", ".", "3", " ">>

\* "sha-abcdef1"
T_sha7 == <<"s", "h", "a", "-", "a", "b", "c", "d", "e", "f", "1">>

\* "SHA-ABCDEF1"
T_SHA7 == <<"S", "H", "A", "-", "A", "B", "C", "D", "E", "F", "1">>

\* "SHA-ABCDEF1234"
T_SHA_long == <<"S", "H", "A", "-", "A", "B", "C", "D", "E", "F", "1", "2", "3", "4">>

\* "abcdef1234"
T_hex10 == <<"a", "b", "c", "d", "e", "f", "1", "2", "3", "4">>

\* "ABCDEF1"
T_HEX7 == <<"A", "B", "C", "D", "E", "F", "1">>

\* "1234567"
T_other7 == <<"1", "2", "3", "4", "5", "6", "7">>

\* "sha-1234567"
T_sha_other == <<"s", "h", "a", "-", "1", "2", "3", "4", "5", "6", "7">>

\* "sha-abcdef"
T_sha_hex6 == <<"s", "h", "a", "-", "a", "b", "c", "d", "e", "f">>

\* "abcdef"
T_hex6 == <<"a", "b", "c", "d", "e", "f">>

\* "main"
T_main == <<"m", "a", "i", "n">>

\* a raw hex tag of 64 characters
T_hex64 ==
    <<"a", "b", "c", "d", "e", "f", "1", "2", "3", "4", "a", "b", "c", "d", "e", "f",
      "1", "2", "3", "4", "a", "b", "c", "d", "e", "f", "1", "2", "3", "4", "a", "b",
      "c", "d", "e", "f", "1", "2", "3", "4", "a", "b", "c", "d", "e", "f", "1", "2",
      "3", "4", "a", "b", "c", "d", "e", "f", "1", "2", "3", "4", "a", "b", "c", "d">>

\* a raw hex tag of 65 characters
T_hex65 ==
    <<"a", "b", "c", "d", "e", "f", "1", "2", "3", "4", "a", "b", "c", "d", "e", "f",
      "1", "2", "3", "4", "a", "b", "c", "d", "e", "f", "1", "2", "3", "4", "a", "b",
      "c", "d", "e", "f", "1", "2", "3", "4", "a", "b", "c", "d", "e", "f", "1", "2",
      "3", "4", "a", "b", "c", "d", "e", "f", "1", "2", "3", "4", "a", "b", "c", "d",
      "0">>

\* sha- and 65 hex characters
T_sha_hex65 ==
    <<"s", "h", "a", "-", "a", "b", "c", "d", "e", "f", "1", "2", "3", "4", "a", "b",
      "c", "d", "e", "f", "1", "2", "3", "4", "a", "b", "c", "d", "e", "f", "1", "2",
      "3", "4", "a", "b", "c", "d", "e", "f", "1", "2", "3", "4", "a", "b", "c", "d",
      "e", "f", "1", "2", "3", "4", "a", "b", "c", "d", "e", "f", "1", "2", "3", "4",
      "a", "b", "c", "d", "0">>

\* "abcdef1234"
Sha_commit == <<"a", "b", "c", "d", "e", "f", "1", "2", "3", "4">>

\* " ABCDEF1234 "
Sha_padded_upper == <<" ", "A", "B", "C", "D", "E", "F", "1", "2", "3", "4", " ">>

\* "abc"
Sha_three == <<"a", "b", "c">>

\* "1234567890"
Sha_unrelated == <<"1", "2", "3", "4", "5", "6", "7", "8", "9", "0">>

\* "refs/tags/v1.2.3"
Ref_tag ==
    <<"r", "e", "f", "s", "/", "t", "a", "g", "s", "/", "v", "1", ".", "2", ".", "3">>

\* "refs/tags/v1.2"
Ref_tag_two_part ==
    <<"r", "e", "f", "s", "/", "t", "a", "g", "s", "/", "v", "1", ".", "2">>

\* "refs/heads/main"
Ref_branch ==
    <<"r", "e", "f", "s", "/", "h", "e", "a", "d", "s", "/", "m", "a", "i", "n">>

\* "v01.2.3"
T_v_leading_zero == <<"v", "0", "1", ".", "2", ".", "3">>

\* "v1.2.3-rc1"
T_v_prerelease == <<"v", "1", ".", "2", ".", "3", "-", "r", "c", "1">>

\* "v1.2"
T_v_two_part == <<"v", "1", ".", "2">>

\* "V1.2.3"
T_V_upper == <<"V", "1", ".", "2", ".", "3">>

\* "v1.2.3.4"
T_v_four_part == <<"v", "1", ".", "2", ".", "3", ".", "4">>

\* " v2.0.0 "
V_padded == <<" ", "v", "2", ".", "0", ".", "0", " ">>

\* "v2.0"
V_two_part == <<"v", "2", ".", "0">>

\* "v02.0.0"
V_leading_zero == <<"v", "0", "2", ".", "0", ".", "0">>

\* "TRUE"
L_TRUE == <<"T", "R", "U", "E">>

\* "v2.0.0"
V_override == <<"v", "2", ".", "0", ".", "0">>

\* "2.0.0"
V_no_v == <<"2", ".", "0", ".", "0">>

\* longest tag list of the family that varies the tags
MaxTags == 3

\* the lists of at most n texts of pool
ListsUpTo(pool, n) == UNION {[1..k -> pool] : k \in 0..n}

TagEnv(tags, push, allowLatest, enforce, release, ref, inputSha, githubSha, semver) ==
    [INPUT_TAGS |-> tags, INPUT_PUSH |-> push, INPUT_ALLOW_LATEST |-> allowLatest,
     INPUT_ENFORCE_TAG_POLICY |-> enforce, INPUT_RELEASE |-> release,
     GITHUB_REF |-> ref, INPUT_SHA |-> inputSha, GITHUB_SHA |-> githubSha,
     INPUT_SEMVER |-> semver]

TagPool == {T_Latest, T_latest, T_v100, T_pad_v123, T_sha7, T_SHA7, <<>>}

ShaTagPool ==
    {T_sha7, T_SHA_long, T_hex10, T_HEX7, T_other7, T_sha_other, T_sha_hex6, T_hex6,
     T_hex64, T_hex65, T_sha_hex65}

WholeLists ==
    {<<>>, T_latest, T_v123, T_main, Join(<<T_sha7, T_v123>>, ","),
     Join(<<T_Latest, T_latest, T_v100>>, ",")}

\* the tag list, for a push with and without a known commit
InitTagLists ==
    \E tags \in ListsUpTo(TagPool, MaxTags), githubSha \in {Unset, SetTo(Sha_commit)},
       allowLatest \in {Unset, SetTo(L_true)} :
        tagEnv = TagEnv(SetTo(Join(tags, ",")), SetTo(L_true), allowLatest, SetTo(L_true),
                        Unset, Unset, Unset, githubSha, Unset)

\* the flags, the ref and the SemVer override, for a few whole lists
InitTagFlags ==
    \E tags \in WholeLists, push \in {Unset, SetTo(L_true), SetTo(L_false), SetTo(L_TRUE)},
       allowLatest \in {Unset, SetTo(L_true)},
       enforceTagPolicy \in {Unset, SetTo(L_true), SetTo(L_false), SetTo(<<>>)},
       release \in {Unset, SetTo(L_true)},
       ref \in {Unset, SetTo(Ref_tag), SetTo(Ref_tag_two_part), SetTo(Ref_branch)},
       semver \in {Unset, SetTo(V_override), SetTo(V_no_v)} :
        tagEnv = TagEnv(SetTo(tags), push, allowLatest, enforceTagPolicy, release, ref,
                        Unset, SetTo(Sha_commit), semver)

\* SHA-like tags against the commit SHA and its override
InitTagSha ==
    \E tags \in ListsUpTo(ShaTagPool, 2), push \in {SetTo(L_true), SetTo(L_false)},
       inputSha \in {Unset, SetTo(<<>>), SetTo(Sha_padded_upper), SetTo(Sha_three)},
       githubSha \in {Unset, SetTo(Sha_commit), SetTo(Sha_unrelated)} :
        tagEnv = TagEnv(SetTo(Join(tags, ",")), push, Unset, Unset, Unset, Unset, inputSha,
                        githubSha, Unset)

SemverTagPool ==
    {T_v123, T_v100, T_v_leading_zero, T_v_prerelease, T_v_two_part, T_V_upper,
     T_v_four_part, T_main}

\* version-like tags against the SemVer override, for a release push
InitTagSemver ==
    \E tags \in ListsUpTo(SemverTagPool, 2),
       semver \in {Unset, SetTo(V_override), SetTo(V_padded), SetTo(V_no_v),
                   SetTo(V_two_part), SetTo(V_leading_zero)} :
        tagEnv = TagEnv(SetTo(Join(tags, ",")), SetTo(L_true), Unset, Unset, SetTo(L_true),
                        Unset, Unset, SetTo(Sha_commit), semver)

\* the validator is not part of a run of the tag-policy script
ValidatorIdle ==
    /\ env = NotYet /\ rawConfig = NotYet /\ runtimeMatrix = NotYet
    /\ strict = FALSE /\ allowUnsafe = FALSE
    /\ pc = "idle"
    /\ issues = <<>> /\ resolved = NotYet /\ finalIssues = <<>> /\ ok = FALSE
    /\ report = NotYet /\ resolvedFile = NotYet /\ written = {}
    /\ outputs = [validation_ok |-> "unset"] /\ failed = FALSE

InitTag ==
    /\ \/ InitTagLists
       \/ InitTagFlags
       \/ InitTagSha
       \/ InitTagSemver
    /\ tagPc = "start"
    /\ locals = NotYet
    /\ policyFiles = [f \in PolicyFileNames |-> NotYet]
    /\ ghOutput = <<>>
    /\ exitCode = "none"
    /\ ValidatorIdle
    /\ InputsIdle /\ StrategyIdle /\ EvidenceIdle /\ CacheIdle /\ SmokeIdle

\* the statements up to the verdict
EvaluatePolicy ==
    /\ tagPc = "start"
    /\ locals' = TagPolicy(tagEnv)
    /\ tagPc' = "write_json"
    /\ UNCHANGED <<tagEnv, policyFiles, ghOutput, exitCode>>
    /\ UNCHANGED notTag

\* writeJson(policyJsonPath, payload)
WritePolicyJson ==
    /\ tagPc = "write_json"
    /\ policyFiles' = [policyFiles EXCEPT !["policy-summary.json"] = payload(tagEnv, locals)]
    /\ tagPc' = "write_md"
    /\ UNCHANGED <<tagEnv, locals, ghOutput, exitCode>>
    /\ UNCHANGED notTag

\* writeText(policyMdPath, md())
WritePolicyMd ==
    /\ tagPc = "write_md"
    /\ policyFiles' = [policyFiles EXCEPT !["policy-summary.md"] = md(tagEnv, locals)]
    /\ tagPc' = "outputs"
    /\ UNCHANGED <<tagEnv, locals, ghOutput, exitCode>>
    /\ UNCHANGED notTag

\* the five setOutput calls
SetPolicyOutputs ==
    /\ tagPc = "outputs"
    /\ ghOutput' = ghOutput \o
           << <<"tags_resolved", Join(locals.tagsResolved, ",")>>,
              <<"is_release", BoolText(locals.isRelease)>>,
              <<"detected_sha_tag", locals.detectedSha.found>>,
              <<"detected_semver_tag", locals.detectedSemver>>,
              <<"policy_verdict", locals.verdict>> >>
    /\ tagPc' = "verdict"
    /\ UNCHANGED <<tagEnv, locals, policyFiles, exitCode>>
    /\ UNCHANGED notTag

\* FailHard with a seeded fault: the failing exit comes before the evidence is written
FailHard_BeforeEvidence ==
    /\ tagPc = "write_json"
    /\ locals.verdict = "fail"
    /\ exitCode' = IF ~locals.enforce THEN "0" ELSE "1"
    /\ tagPc' = "exited"
    /\ UNCHANGED <<tagEnv, locals, policyFiles, ghOutput>>
    /\ UNCHANGED notTag

\* Fail hard if enforcing and verdict is fail
FailHard ==
    /\ tagPc = "verdict"
    /\ locals.verdict = "fail"
    /\ exitCode' = IF ~locals.enforce THEN "0" ELSE "1"
    /\ tagPc' = "exited"
    /\ UNCHANGED <<tagEnv, locals, policyFiles, ghOutput>>
    /\ UNCHANGED notTag

\* the script runs to its end
EndOfScript ==
    /\ tagPc = "verdict"
    /\ locals.verdict # "fail"
    /\ exitCode' = "0"
    /\ tagPc' = "exited"
    /\ UNCHANGED <<tagEnv, locals, policyFiles, ghOutput>>
    /\ UNCHANGED notTag

NextTag ==
    \/ EvaluatePolicy
    \/ WritePolicyJson
    \/ WritePolicyMd
    \/ SetPolicyOutputs
    \/ FailHard
    \/ EndOfScript

SpecTag == InitTag /\ [][NextTag]_vars

\* every state of a run
TagTypeOK == tagPc \in {"start", "write_json", "write_md", "outputs", "verdict", "exited"}

-----------------------------------------------------------------------------
(* Vocabulary of the tag-policy properties. *)

\* the script has computed its verdict
Evaluated == tagPc \notin {"idle", "start"}

\* the process has exited
Exited == tagPc = "exited"

\* the value of an output, once set
OutputOf(key) == (CHOOSE k \in 1..Len(ghOutput) : ghOutput[k][1] = key)

\* the tags of the input list: its non-blank comma-separated items, trimmed
InputTags == parseTags(envOr(tagEnv, "INPUT_TAGS", <<>>))

\* two tags are equal under case-insensitive comparison
SameTag(a, b) == ToLowerCase(a) = ToLowerCase(b)

\* the positions of list holding the first occurrence of their tag
FirstPositions(list) ==
    {i \in 1..Len(list) : \A j \in 1..(i - 1) : ~SameTag(list[j], list[i])}

\* the first occurrences of list, in their order
FirstOccurrences(list) ==
    LET keep == FirstPositions(list)
    IN  [k \in 1..Cardinality(keep) |->
            list[CHOOSE i \in keep : Cardinality({j \in keep : j <= i}) = k]]

\* the tag is 'latest' in some letter case
IsLatest(t) == ToLowerCase(t) = L_latest

-----------------------------------------------------------------------------
(* Claims C15..C20: the tag-policy script. *)

\* C15 as stated: tags_resolved has no two entries equal under case-insensitive
\* comparison, and each entry is the first occurrence of its tag with that occurrence's
\* original casing, in first-occurrence order ('Latest,latest,v1.0.0' gives
\* ['Latest','v1.0.0']).
C15_FirstCasingKept ==
    Evaluated =>
        /\ \A i, j \in 1..Len(locals.tagsResolved) :
              i # j => ~SameTag(locals.tagsResolved[i], locals.tagsResolved[j])
        /\ locals.tagsResolved = FirstOccurrences(InputTags)

\* C15 amended: tags_resolved has no two entries equal under case-insensitive
\* comparison and holds one entry per first occurrence, in first-occurrence order; the
\* entry is the first occurrence with its original casing, except that a tag equal to
\* 'latest' in any casing is written 'latest' ('Latest,latest,v1.0.0' gives
\* ['latest','v1.0.0']).  The evidence file and the output carry this list.
C15_FirstCasingKeptButLatest ==
    Evaluated =>
        LET first == FirstOccurrences(InputTags)
            expected == [k \in 1..Len(first) |->
                            IF IsLatest(first[k]) THEN L_latest ELSE first[k]]
        IN  /\ \A i, j \in 1..Len(locals.tagsResolved) :
                  i # j => ~SameTag(locals.tagsResolved[i], locals.tagsResolved[j])
            /\ locals.tagsResolved = expected
            /\ Exited =>
                  /\ policyFiles["policy-summary.json"].resolved.tags_resolved = expected
                  /\ ghOutput[OutputOf("tags_resolved")][2] = Join(expected, ",")

\* the run of 'Latest,latest,v1.0.0' has exited with ['latest','v1.0.0']
C15_Witness ==
    /\ Exited
    /\ tagEnv.INPUT_TAGS.s = Join(<<T_Latest, T_latest, T_v100>>, ",")
    /\ locals.tagsResolved = <<L_latest, T_v100>>

\* the codes of a list of reasons, in order
Codes(reasons) == [k \in 1..Len(reasons) |-> reasons[k].code]

\* the codes the three rules give for the facts the script detected
ExpectedCodes ==
    (IF (\E k \in 1..Len(locals.tagsResolved) : IsLatest(locals.tagsResolved[k]))
           /\ ~locals.allowLatest
        THEN <<"LATEST_FORBIDDEN">> ELSE <<>>)
    \o (IF locals.push /\ locals.detectedSha.found = <<>>
            THEN <<"SHA_TAG_REQUIRED">> ELSE <<>>)
    \o (IF locals.push /\ locals.isRelease /\ locals.detectedSemver = <<>>
            THEN <<"SEMVER_REQUIRED_FOR_RELEASE">> ELSE <<>>)

\* the canonical tag expected for the source SHA: sha-<its first 7 characters> in lower
\* case, or the generic placeholder when the run knows no source SHA
ExpectedShaTag ==
    IF locals.sha # <<>> THEN L_sha_dash \o ToLowerCase(SliceTo(locals.sha, 7))
    ELSE L_placeholder

\* the run pushes the given tag list for commit abcdef1234 with the policy enforced
PushOf(list) ==
    /\ tagEnv.INPUT_TAGS = SetTo(list)
    /\ tagEnv.INPUT_PUSH = SetTo(L_true)
    /\ tagEnv.INPUT_SHA = Unset /\ tagEnv.GITHUB_SHA = SetTo(Sha_commit)
    /\ tagEnv.GITHUB_REF = Unset /\ tagEnv.INPUT_SEMVER = Unset
    /\ tagEnv.INPUT_ENFORCE_TAG_POLICY \in {Unset, SetTo(L_true)}

\* C16: failure_reasons holds exactly the codes of the three rules, in the order latest,
\* SHA, SemVer: LATEST_FORBIDDEN iff a resolved tag is 'latest' in some casing and
\* allow_latest is false; SHA_TAG_REQUIRED iff push and no SHA tag detected, its fix
\* naming the expected canonical tag; SEMVER_REQUIRED_FOR_RELEASE iff push, release and
\* no SemVer tag detected.  Pushing 'v1.2.3' fails with SHA_TAG_REQUIRED (fix
\* sha-abcdef1); pushing 'sha-abcdef1,v1.2.3' as a release passes.
C16_FailureReasons ==
    Evaluated =>
        /\ Codes(locals.reasons) = ExpectedCodes
        /\ \A k \in 1..Len(locals.reasons) :
              locals.reasons[k].code = "SHA_TAG_REQUIRED" =>
                  locals.reasons[k].fixTag = ExpectedShaTag
        /\ (PushOf(T_v123) /\ tagEnv.INPUT_RELEASE = Unset) =>
              /\ locals.reasons = <<Reason("SHA_TAG_REQUIRED", L_sha_dash \o SliceTo(Sha_commit, 7))>>
              /\ locals.verdict = "fail"
        /\ (PushOf(Join(<<T_sha7, T_v123>>, ",")) /\ tagEnv.INPUT_RELEASE = SetTo(L_true)) =>
              /\ locals.reasons = <<>>
              /\ locals.verdict = "pass"
        /\ Exited =>
              policyFiles["policy-summary.json"].failure_reasons = locals.reasons

\* a release push of 'latest' alone has exited with the three reasons
C16_Witness ==
    /\ Exited
    /\ locals.push /\ locals.isRelease
    /\ Codes(policyFiles["policy-summary.json"].failure_reasons) =
           <<"LATEST_FORBIDDEN", "SHA_TAG_REQUIRED", "SEMVER_REQUIRED_FOR_RELEASE">>

\* the push of 'v1.2.3' for commit abcdef1234 has failed
C16_WitnessShaRequired ==
    /\ Exited /\ PushOf(T_v123) /\ tagEnv.INPUT_RELEASE = Unset
    /\ exitCode = "1"

\* what a run detected, the verdict aside
Facts(l) ==
    [tags_resolved |-> l.tagsResolved, is_release |-> l.isRelease,
     detected_sha_tag |-> l.detectedSha.found, detected_semver_tag |-> l.detectedSemver,
     failure_reasons |-> l.reasons, notices |-> l.notices]

\* the values INPUT_ENFORCE_TAG_POLICY may take
EnforceValues == {Unset, SetTo(L_true), SetTo(L_false), SetTo(L_TRUE), SetTo(<<>>)}

\* enforcement is on: the input is absent or is 'true' in some letter case
EnforcementOn ==
    \/ ~tagEnv.INPUT_ENFORCE_TAG_POLICY.set
    \/ ToLowerCase(tagEnv.INPUT_ENFORCE_TAG_POLICY.s) = L_true

\* C17: the verdict is pass iff failure_reasons is empty, otherwise fail when
\* enforcement is on and warn when it is off; an evaluation that differs from the run
\* only in the enforce flag gives the same tags_resolved, is_release, detected SHA and
\* SemVer tags, failure_reasons and notices, and the same evidence payload but for the
\* verdict and the recorded flag.
C17_EnforceOnlyChangesVerdict ==
    Evaluated =>
        /\ locals.verdict = (IF locals.reasons = <<>> THEN "pass"
                             ELSE IF EnforcementOn THEN "fail" ELSE "warn")
        /\ tagPc = "write_json" => \A other \in EnforceValues :
              LET e2 == [tagEnv EXCEPT !.INPUT_ENFORCE_TAG_POLICY = other]
                  l2 == TagPolicy(e2)
                  p1 == payload(tagEnv, locals)
                  p2 == payload(e2, l2)
              IN  /\ Facts(l2) = Facts(locals)
                  /\ [p2 EXCEPT !.verdict = p1.verdict,
                                !.inputs.enforce_tag_policy = p1.inputs.enforce_tag_policy]
                         = p1
                  /\ (l2.verdict = "pass") <=> (locals.verdict = "pass")
        /\ \A k \in 1..Len(ghOutput) :
              ghOutput[k][1] = "policy_verdict" => ghOutput[k][2] = locals.verdict

\* a run with enforcement off has exited with verdict warn and its reasons recorded
C17_Witness ==
    /\ Exited
    /\ ~EnforcementOn
    /\ locals.verdict = "warn"
    /\ policyFiles["policy-summary.json"].verdict = "warn"
    /\ policyFiles["policy-summary.json"].failure_reasons # <<>>

\* the names of the outputs set so far, in order
OutputKeys == [k \in 1..Len(ghOutput) |-> ghOutput[k][1]]

\* both evidence files are in the policy directory
PolicyEvidenceWritten == \A f \in PolicyFileNames : policyFiles[f] # NotYet

\* C18: in every run (verdict pass, warn or fail) policy-summary.json and
\* policy-summary.md are written and the five outputs are set before the process exits,
\* the files before the outputs; the exit code is non-zero iff the verdict is fail, so a
\* warn verdict never fails the step.
C18_EvidenceAndOutputsBeforeExit ==
    /\ exitCode # "none" => Exited
    /\ ghOutput # <<>> => PolicyEvidenceWritten
    /\ Exited =>
          /\ PolicyEvidenceWritten
          /\ policyFiles["policy-summary.json"].verdict = locals.verdict
          /\ policyFiles["policy-summary.md"].Verdict = locals.verdict
          /\ OutputKeys = <<"tags_resolved", "is_release", "detected_sha_tag",
                            "detected_semver_tag", "policy_verdict">>
          /\ ghOutput[OutputOf("policy_verdict")][2] = locals.verdict
          /\ locals.verdict \in {"pass", "warn", "fail"}
          /\ (exitCode # "0") <=> (locals.verdict = "fail")
          /\ locals.verdict = "warn" => exitCode = "0"

\* a failing run has exited with code 1 after writing its evidence and outputs
C18_Witness ==
    /\ Exited
    /\ locals.verdict = "fail" /\ exitCode = "1"
    /\ PolicyEvidenceWritten
    /\ Len(ghOutput) = 5

\* a warning run has exited with code 0
C18_WitnessWarn == Exited /\ locals.verdict = "warn" /\ exitCode = "0" /\ Len(ghOutput) = 5

\* a run of 7 to 64 hex characters, in either letter case
HexRun(s) == Len(s) \in 7..64 /\ \A i \in 1..Len(s) : s[i] \in HexChars

\* the tag is sha-<7 to 64 hex characters>, letter case aside
IsShaPrefixed(t) ==
    /\ Len(t) > 4
    /\ SameTag(SubSeq(t, 1, 4), L_sha_dash)
    /\ HexRun(SubSeq(t, 5, Len(t)))

\* the least position of a non-empty set of positions
First(positions) == CHOOSE i \in positions : \A j \in positions : i <= j

\* C19: if some resolved tag is sha-<7 to 64 hex chars>, the detected SHA tag comes
\* from the first such tag (sha- and its hex part in lower case), even when a bare hex
\* tag stands earlier in the list; failing that it comes from the first bare hex tag of
\* 7 to 64 characters (sha- and its first 7 characters); failing that nothing is
\* detected and the expected canonical tag is sha-<first 7 chars of the source SHA>
\* when a source SHA is available, else the generic placeholder.
C19_ShaDetectionPriority ==
    Evaluated =>
        LET r == locals.tagsResolved
            prefixed == {i \in 1..Len(r) : IsShaPrefixed(r[i])}
            bare == {i \in 1..Len(r) : HexRun(r[i])}
            found == locals.detectedSha.found
        IN  IF prefixed # {}
                THEN LET t == r[First(prefixed)]
                     IN  found = L_sha_dash \o ToLowerCase(SubSeq(t, 5, Len(t)))
            ELSE IF bare # {}
                THEN found = L_sha_dash \o ToLowerCase(SliceTo(r[First(bare)], 7))
            ELSE /\ found = <<>>
                 /\ locals.detectedSha.expected = ExpectedShaTag

\* a sha- tag was detected although a bare hex tag of another commit stands before it
C19_Witness ==
    /\ Exited
    /\ locals.tagsResolved = <<T_hex10, T_sha_other>>
    /\ locals.detectedSha.found = T_sha_other
    /\ ghOutput[OutputOf("detected_sha_tag")][2] = T_sha_other

\* nothing was detected among tags that are too short or too long, with a known commit
C19_WitnessNone ==
    /\ Exited
    /\ locals.tagsResolved = <<T_hex6, T_hex65>>
    /\ locals.detectedSha.found = <<>>
    /\ locals.detectedSha.expected = L_sha_dash \o SliceTo(Sha_commit, 7)

\* the canonical short form: sha- and exactly 7 lower-case hex characters
IsCanonicalShaTag(s) ==
    /\ Len(s) = 4 + 7
    /\ SubSeq(s, 1, 4) = L_sha_dash
    /\ \A i \in 5..Len(s) :
          s[i] \in Digits \cup {"a", "b", "c", "d", "e", "f"}

\* the detected SHA tag as the output and the evidence file report it, "" for none
ReportedShaTag ==
    {ghOutput[k][2] : k \in {k \in 1..Len(ghOutput) : ghOutput[k][1] = "detected_sha_tag"}}
        \cup (IF policyFiles["policy-summary.json"] = NotYet THEN {}
              ELSE {policyFiles["policy-summary.json"].detected.detected_sha_tag.s})

\* C20 as stated: the detected_sha_tag of the output and of the evidence is always
\* empty or canonical, sha- followed by exactly 7 lower-case hex characters, whichever
\* accepted form the input tag had.
C20_DetectedShaCanonical ==
    Evaluated => \A s \in ReportedShaTag : s = <<>> \/ IsCanonicalShaTag(s)

-----------------------------------------------------------------------------
(* Claims C21, C22: mismatch notice and SemVer detection. *)

\* the source SHA the run knows, in lower case
SourceSha == ToLowerCase(locals.sha)

\* the hex part of the detected SHA tag
DetectedHex == SubSeq(locals.detectedSha.found, 5, Len(locals.detectedSha.found))

\* a SHA tag was detected and a source SHA is known
ShaComparable == Evaluated /\ locals.sha # <<>> /\ locals.detectedSha.found # <<>>

\* the detected tag's hex is neither a prefix of the source SHA nor prefixed by the
\* source's short SHA
HexMismatch ==
    /\ ~StartsWith(SourceSha, DetectedHex)
    /\ ~StartsWith(DetectedHex, SliceTo(SourceSha, 7))

\* a SHA_TAG_MISMATCH notice is recorded
MismatchNoticed ==
    \E k \in 1..Len(locals.notices) : locals.notices[k].code = "SHA_TAG_MISMATCH"

\* the detected tag stems from a sha- prefixed tag of the list
FromPrefixedTag ==
    \E k \in 1..Len(locals.tagsResolved) : IsShaPrefixed(locals.tagsResolved[k])

\* C21 as stated: whenever a source SHA is known and the detected SHA tag's hex is
\* neither a prefix of the source SHA nor prefixed by the source's short SHA, a
\* SHA_TAG_MISMATCH notice is recorded, the tag is still the detected SHA tag and no
\* failure reason is added; the check is the same for bare-hex tags.
C21_MismatchAlwaysNoticed ==
    ShaComparable =>
        /\ HexMismatch => MismatchNoticed
        /\ "SHA_TAG_REQUIRED" \notin {locals.reasons[k].code : k \in 1..Len(locals.reasons)}

\* C21 amended: the notice is recorded only in a run that pushes.  With push true, a
\* known source SHA and a detected tag, SHA_TAG_MISMATCH is recorded iff, for a sha-
\* tag, its hex is neither a prefix of the source SHA nor prefixed by the source's
\* short SHA, and for a bare hex tag, the source SHA does not start with the tag's
\* first 7 hex characters; with push false or no source SHA no notice is recorded.
\* The tag stays the detected SHA tag, the notice names it, and the reasons and the
\* verdict are those of the three rules alone.
C21_MismatchNoticedOnPush ==
    Evaluated =>
        /\ MismatchNoticed <=>
              /\ locals.push /\ locals.sha # <<>> /\ locals.detectedSha.found # <<>>
              /\ IF FromPrefixedTag THEN HexMismatch
                 ELSE ~StartsWith(SourceSha, DetectedHex)
        /\ MismatchNoticed =>
              /\ locals.notices =
                     <<[code |-> "SHA_TAG_MISMATCH", note |-> locals.detectedSha.found]>>
              /\ "SHA_TAG_REQUIRED" \notin
                     {locals.reasons[k].code : k \in 1..Len(locals.reasons)}
              /\ Codes(locals.reasons) = ExpectedCodes
        /\ Len(locals.notices) <= 1

\* a push whose sha- tag names another commit has passed with the notice recorded
C21_Witness ==
    /\ Exited
    /\ locals.push /\ FromPrefixedTag
    /\ MismatchNoticed
    /\ locals.verdict = "pass" /\ exitCode = "0"
    /\ policyFiles["policy-summary.json"].notices # <<>>

\* a push whose bare hex tag names another commit has the notice recorded
C21_WitnessBare == Exited /\ locals.push /\ ~FromPrefixedTag /\ MismatchNoticed

\* a number without leading zero
PlainNumber(s) ==
    /\ s # <<>>
    /\ \A i \in 1..Len(s) : s[i] \in Digits
    /\ Len(s) > 1 => s[1] # "0"

\* strict vX.Y.Z: v, three plain numbers separated by dots, nothing after
StrictSemver(t) ==
    \E i, j \in 1..Len(t) :
        /\ 2 < i /\ i < j /\ j < Len(t)
        /\ t[1] = "v" /\ t[i] = "." /\ t[j] = "."
        /\ PlainNumber(SubSeq(t, 2, i - 1))
        /\ PlainNumber(SubSeq(t, i + 1, j - 1))
        /\ PlainNumber(SubSeq(t, j + 1, Len(t)))

\* the SemVer override of the run, trimmed ("" when absent)
Override == Trim(envOr(tagEnv, "INPUT_SEMVER", <<>>))

\* C22: detected_semver_tag is the explicit override when the override matches strict
\* vX.Y.Z (no leading zeros, no prerelease or build suffix); otherwise the first tag of
\* tags_resolved that matches; otherwise empty.  Output and evidence carry it.
C22_SemverDetection ==
    Evaluated =>
        LET r == locals.tagsResolved
            hits == {i \in 1..Len(r) : StrictSemver(r[i])}
            expected == IF StrictSemver(Override) THEN Override
                        ELSE IF hits # {} THEN r[First(hits)]
                        ELSE <<>>
        IN  /\ locals.detectedSemver = expected
            /\ Exited =>
                  /\ ghOutput[OutputOf("detected_semver_tag")][2] = expected
                  /\ policyFiles["policy-summary.json"].detected.detected_semver_tag
                         = OrNull(expected)

\* the override v2.0.0 was detected although the list holds the SemVer tag v1.2.3
C22_Witness ==
    /\ Exited
    /\ Override = V_override
    /\ \E k \in 1..Len(locals.tagsResolved) : locals.tagsResolved[k] = T_v123
    /\ locals.detectedSemver = V_override

\* an override with a leading zero was passed over for the second tag of the list
C22_WitnessTag ==
    /\ Exited
    /\ Override = V_leading_zero
    /\ locals.tagsResolved = <<T_v_prerelease, T_v100>>
    /\ locals.detectedSemver = T_v100

-----------------------------------------------------------------------------
(* The container input validator (Container Build Contract v1). *)

\* "buildx"
B_buildx == <<"b", "u", "i", "l", "d", "x">>

\* "kaniko"
B_kaniko == <<"k", "a", "n", "i", "k", "o">>

\* "docker"
B_docker == <<"d", "o", "c", "k", "e", "r">>

\* " kaniko "
B_kaniko_padded == <<" ", "k", "a", "n", "i", "k", "o", " ">>

\* "dry_run"
M_dry_run == <<"d", "r", "y", "_", "r", "u", "n">>

\* "build_only"
M_build_only == <<"b", "u", "i", "l", "d", "_", "o", "n", "l", "y">>

\* "build_and_push"
M_build_and_push == <<"b", "u", "i", "l", "d", "_", "a", "n", "d", "_", "p", "u", "s", "h">>

\* "push"
M_push == <<"p", "u", "s", "h">>

\* "org/svc"
I_org_svc == <<"o", "r", "g", "/", "s", "v", "c">>

\* "svc"
I_svc == <<"s", "v", "c">>

\* "/svc"
I_leading_slash == <<"/", "s", "v", "c">>

\* "svc/"
I_trailing_slash == <<"s", "v", "c", "/">>

\* "A=1"
A_plain == <<"A", "=", "1">>

\* "api_key=1"
A_api_key == <<"a", "p", "i", "_", "k", "e", "y", "=", "1">>

\* "A=1\nNPM_TOKEN=x"
A_token_second == <<"A", "=", "1", "\n", "N", "P", "M", "_", "T", "O", "K", "E", "N", "=", "x">>

\* "=TOKEN"
A_no_key == <<"=", "T", "O", "K", "E", "N">>

\* "sha-latest"
T_sha_word == <<"s", "h", "a", "-", "l", "a", "t", "e", "s", "t">>

\* "sha-"
T_sha_bare == <<"s", "h", "a", "-">>

\* "."
L_dot == <<".">>

\* "Dockerfile"
L_Dockerfile == <<"D", "o", "c", "k", "e", "r", "f", "i", "l", "e">>

\* "ghcr.io"
L_ghcr == <<"g", "h", "c", "r", ".", "i", "o">>

\* "B=2\r": a value followed by a carriage return
A_carriage_return == <<"B", "=", "2", "\r">>

\* a bare hexadecimal tag of 40 characters, and one of 41
T_hex40 == SubSeq(T_hex64, 1, 40)

T_hex41 == SubSeq(T_hex64, 1, 41)

LowerToUpper ==
    [c \in {LowerLetters[i] : i \in 1..Len(LowerLetters)} |->
        UpperLetters[CHOOSE i \in 1..Len(LowerLetters) : LowerLetters[i] = c]]

ToUpperCase(s) ==
    [i \in 1..Len(s) |-> IF s[i] \in DOMAIN LowerToUpper THEN LowerToUpper[s[i]] ELSE s[i]]

\* s.endsWith(p)
EndsWith(s, p) == Len(p) <= Len(s) /\ SubSeq(s, Len(s) - Len(p) + 1, Len(s)) = p

\* the names read with getRequired, in the order of the reads
RequiredNames == <<"BUILDER", "MODE", "CONTEXT", "DOCKERFILE", "IMAGE_NAME", "REGISTRY", "TAGS">>

\* getRequired(name) fails: !v || String(v).trim().length === 0
getRequiredFails(e, name) == ~e[name].set \/ Trim(e[name].s) = <<>>

\* getRequired(name) where it returns
getRequired(e, name) == Trim(e[name].s)

\* parseTags(raw) of the container input validator, before its length check
ci_parseTags(raw) ==
    LET parts == Split(raw, ",")
        trimmed == [i \in 1..Len(parts) |-> Trim(parts[i])]
    IN  SelectSeq(trimmed, LAMBDA t : t # <<>>)

\* /^[a-f0-9]{7,40}$/i.test(t)
BareShaRe(t) == Len(t) >= 7 /\ Len(t) <= 40 /\ \A i \in 1..Len(t) : t[i] \in HexChars

\* hasSha with a seeded fault: only the sha- prefix counts
hasSha_PrefixOnly(tags) == \E i \in 1..Len(tags) : StartsWith(tags[i], L_sha_dash)

\* tags.some((t) => t.startsWith("sha-") || /^[a-f0-9]{7,40}$/i.test(t))
hasSha(tags) ==
    \E i \in 1..Len(tags) : StartsWith(tags[i], L_sha_dash) \/ BareShaRe(tags[i])

\* the push expectation with a seeded fault: an explicit PUSH is ignored
derivePush_ModeOnly(e, mode) == mode = M_build_and_push

\* process.env.PUSH ? process.env.PUSH === "true" : mode === "build_and_push"
derivePush(e, mode) ==
    IF e.PUSH.set /\ e.PUSH.s # <<>> THEN e.PUSH.s = L_true ELSE mode = M_build_and_push

forbidden ==
    {<<"T", "O", "K", "E", "N">>, <<"P", "A", "S", "S", "W", "O", "R", "D">>,
     <<"S", "E", "C", "R", "E", "T">>, <<"K", "E", "Y">>,
     <<"C", "R", "E", "D", "E", "N", "T", "I", "A", "L">>}

\* the loop of assertNoSecretsInBuildArgs over the lines: the first failure, or "none"
RECURSIVE BuildArgsLoop(_)
BuildArgsLoop(lines) ==
    IF lines = <<>> THEN "none"
    ELSE LET line == Head(lines)
             k == Trim(Split(line, "=")[1])
         IN  IF k = <<>> THEN BuildArgsLoop(Tail(lines))
             ELSE IF \E f \in forbidden : Includes(ToUpperCase(k), f)
                  THEN "build_args contains secret-like key"
             ELSE IF Includes(line, <<"\r">>)
                  THEN "build_args contains invalid control characters"
             ELSE BuildArgsLoop(Tail(lines))

assertNoSecretsInBuildArgs(raw) == BuildArgsLoop(Split(raw, "\n"))

\* fail(msg): the message on stderr, exit code 1
ci_fail(msg) ==
    /\ ciLog' = [ok |-> FALSE, msg |-> msg]
    /\ ciExit' = "1"
    /\ ciPc' = "done"

\* the seven getRequired reads and parseTags
ReadRequired ==
    /\ ciPc = "start"
    /\ LET missing == {i \in 1..Len(RequiredNames) : getRequiredFails(ciEnv, RequiredNames[i])}
       IN  IF missing # {}
           THEN /\ ci_fail("Missing required env")
                /\ UNCHANGED ciLocals
           ELSE LET tags == ci_parseTags(getRequired(ciEnv, "TAGS"))
                IN  IF tags = <<>>
                    THEN /\ ci_fail("tags must contain at least 1 tag")
                         /\ UNCHANGED ciLocals
                    ELSE /\ ciLocals' = [builder |-> getRequired(ciEnv, "BUILDER"),
                                         mode |-> getRequired(ciEnv, "MODE"),
                                         context |-> getRequired(ciEnv, "CONTEXT"),
                                         dockerfile |-> getRequired(ciEnv, "DOCKERFILE"),
                                         imageName |-> getRequired(ciEnv, "IMAGE_NAME"),
                                         registry |-> getRequired(ciEnv, "REGISTRY"),
                                         tags |-> tags]
                         /\ ciPc' = "builder_mode"
                         /\ UNCHANGED <<ciLog, ciExit>>
    /\ UNCHANGED <<ciEnv, ciFs>>
    /\ UNCHANGED notInputs

\* builder must be buildx|kaniko, mode one of the three modes
CheckBuilderMode ==
    /\ ciPc = "builder_mode"
    /\ IF ciLocals.builder \notin {B_buildx, B_kaniko}
       THEN ci_fail("builder must be buildx|kaniko")
       ELSE IF ciLocals.mode \notin {M_dry_run, M_build_only, M_build_and_push}
       THEN ci_fail("mode invalid")
       ELSE ciPc' = "paths" /\ UNCHANGED <<ciLog, ciExit>>
    /\ UNCHANGED <<ciEnv, ciFs, ciLocals>>
    /\ UNCHANGED notInputs

\* existence of context and dockerfile, image_name without leading or trailing '/'
CheckPaths ==
    /\ ciPc = "paths"
    /\ IF ~ciFs.context THEN ci_fail("context not found")
       ELSE IF ~ciFs.dockerfile THEN ci_fail("dockerfile not found")
       ELSE IF StartsWith(ciLocals.imageName, <<"/">>) \/ EndsWith(ciLocals.imageName, <<"/">>)
       THEN ci_fail("image_name cannot start/end with '/'")
       ELSE ciPc' = "push" /\ UNCHANGED <<ciLog, ciExit>>
    /\ UNCHANGED <<ciEnv, ciFs, ciLocals>>
    /\ UNCHANGED notInputs

\* Mode -> push expectation
DerivePush ==
    /\ ciPc = "push"
    /\ LET push == derivePush(ciEnv, ciLocals.mode)
       IN  /\ ciLocals' = ciLocals @@ ("push" :> push)
           /\ IF ciLocals.mode = M_build_and_push /\ ~push
              THEN ci_fail("mode=build_and_push requires push=true")
              ELSE ciPc' = "sha" /\ UNCHANGED <<ciLog, ciExit>>
    /\ UNCHANGED <<ciEnv, ciFs>>
    /\ UNCHANGED notInputs

\* SHA tag enforcement baseline
CheckShaTag ==
    /\ ciPc = "sha"
    /\ IF ciLocals.mode = M_build_and_push /\ ~hasSha(ciLocals.tags)
       THEN ci_fail("build_and_push requires an immutable SHA tag")
       ELSE ciPc' = "build_args" /\ UNCHANGED <<ciLog, ciExit>>
    /\ UNCHANGED <<ciEnv, ciFs, ciLocals>>
    /\ UNCHANGED notInputs

\* if (buildArgs.trim().length > 0) assertNoSecretsInBuildArgs(buildArgs)
CheckBuildArgs ==
    /\ ciPc = "build_args"
    /\ LET buildArgs == IF ciEnv.BUILD_ARGS.set THEN ciEnv.BUILD_ARGS.s ELSE <<>>
           failure == IF Trim(buildArgs) # <<>> THEN assertNoSecretsInBuildArgs(buildArgs)
                      ELSE "none"
       IN  IF failure # "none" THEN ci_fail(failure)
           ELSE ciPc' = "report" /\ UNCHANGED <<ciLog, ciExit>>
    /\ UNCHANGED <<ciEnv, ciFs, ciLocals>>
    /\ UNCHANGED notInputs

\* the OK line and the JSON record of the inputs; the script ends
ReportOk ==
    /\ ciPc = "report"
    /\ ciLog' = [ok |-> TRUE, builder |-> ciLocals.builder, mode |-> ciLocals.mode,
                 tags |-> ciLocals.tags, push |-> ciLocals.push]
    /\ ciExit' = "0"
    /\ ciPc' = "done"
    /\ UNCHANGED <<ciEnv, ciFs, ciLocals>>
    /\ UNCHANGED notInputs

CiEnv(builder, mode, imageName, tags, push, buildArgs) ==
    [BUILDER |-> builder, MODE |-> mode, CONTEXT |-> SetTo(L_dot),
     DOCKERFILE |-> SetTo(L_Dockerfile), IMAGE_NAME |-> imageName,
     REGISTRY |-> SetTo(L_ghcr), TAGS |-> tags, PUSH |-> push, BUILD_ARGS |-> buildArgs]

AllPresent == [context |-> TRUE, dockerfile |-> TRUE]

BaseCiEnv ==
    CiEnv(SetTo(B_buildx), SetTo(M_build_only), SetTo(I_org_svc), SetTo(T_sha7), Unset, Unset)

PushValues == {Unset, SetTo(<<>>), SetTo(L_true), SetTo(L_false), SetTo(L_TRUE)}

CiTagPool ==
    ShaTagPool \cup {T_sha7, T_SHA7, T_hex40, T_hex41, T_sha_word, T_sha_bare, T_latest, T_v123}

\* one required variable absent or blank, or a tag list without a tag
InitCiRequired ==
    /\ \/ \E i \in 1..Len(RequiredNames), v \in {Unset, SetTo(<<>>), SetTo(<<" ">>)} :
              ciEnv = [BaseCiEnv EXCEPT ![RequiredNames[i]] = v]
       \/ \E v \in {<<",">>, <<" ", ",", " ">>} : ciEnv = [BaseCiEnv EXCEPT !.TAGS = SetTo(v)]
    /\ ciFs = AllPresent

\* builders and modes against the explicit push
InitCiModes ==
    /\ \E builder \in {B_buildx, B_kaniko, B_docker, B_kaniko_padded},
          mode \in {M_dry_run, M_build_only, M_build_and_push, M_push},
          push \in PushValues, tags \in {T_sha7, T_latest} :
           ciEnv = CiEnv(SetTo(builder), SetTo(mode), SetTo(I_org_svc), SetTo(tags), push, Unset)
    /\ ciFs = AllPresent

\* tag lists in every mode
InitCiTags ==
    /\ \E tags \in ListsUpTo(CiTagPool, 2), mode \in {M_build_only, M_build_and_push} :
           ciEnv = CiEnv(SetTo(B_buildx), SetTo(mode), SetTo(I_org_svc),
                         SetTo(Join(tags, ",")), Unset, Unset)
    /\ ciFs = AllPresent

\* what exists on disk, and the image name
InitCiPaths ==
    /\ \E imageName \in {I_org_svc, I_svc, I_leading_slash, I_trailing_slash} :
           ciEnv = [BaseCiEnv EXCEPT !.IMAGE_NAME = SetTo(imageName)]
    /\ ciFs \in {AllPresent, [context |-> TRUE, dockerfile |-> FALSE],
                 [context |-> FALSE, dockerfile |-> FALSE]}

\* build args
InitCiBuildArgs ==
    /\ \E buildArgs \in {SetTo(<<>>), SetTo(<<" ">>), SetTo(A_plain), SetTo(A_api_key),
                         SetTo(A_token_second), SetTo(A_no_key), SetTo(A_carriage_return)},
          mode \in {M_dry_run, M_build_and_push} :
           ciEnv = CiEnv(SetTo(B_kaniko), SetTo(mode), SetTo(I_svc), SetTo(T_sha7), Unset, buildArgs)
    /\ ciFs = AllPresent

InitInputs ==
    /\ \/ InitCiRequired
       \/ InitCiModes
       \/ InitCiTags
       \/ InitCiPaths
       \/ InitCiBuildArgs
    /\ ciPc = "start"
    /\ ciLocals = NotYet
    /\ ciLog = NotYet
    /\ ciExit = "none"
    /\ ValidatorIdle /\ TagIdle
    /\ StrategyIdle /\ EvidenceIdle /\ CacheIdle /\ SmokeIdle

NextInputs ==
    \/ ReadRequired
    \/ CheckBuilderMode
    \/ CheckPaths
    \/ DerivePush
    \/ CheckShaTag
    \/ CheckBuildArgs
    \/ ReportOk

SpecInputs == InitInputs /\ [][NextInputs]_vars

-----------------------------------------------------------------------------
(* Claim C23: push and mode in the container input validator. *)

\* modeRequiresPush(mode) of the strategy module
modeRequiresPush(mode) == mode = M_build_and_push

\* the validator computed push
PushDerived == ciPc # "idle" /\ "push" \in DOMAIN ciLocals

\* the validator went on after the push expectation
PushAccepted ==
    /\ PushDerived
    /\ ~(ciPc = "done" /\ ~ciLog.ok /\ ciLog.msg = "mode=build_and_push requires push=true")

\* C23: push is derived from mode (true exactly for build_and_push), and an explicit push
\* override is accepted only if it is consistent with the mode: build_and_push with
\* push=false is rejected, and dry_run or build_only with push=true is rejected.
C23_PushConsistentWithMode ==
    /\ PushDerived /\ ~(ciEnv.PUSH.set /\ ciEnv.PUSH.s # <<>>) =>
           ciLocals.push = modeRequiresPush(ciLocals.mode)
    /\ PushAccepted => ciLocals.push = modeRequiresPush(ciLocals.mode)

\* the part of C23 the validator keeps: a run that goes on in build_and_push has push true
C23_PushTrueWhenPushing ==
    PushAccepted /\ ciLocals.mode = M_build_and_push => ciLocals.push

-----------------------------------------------------------------------------
(* The container build strategy module: decideBuilder and modeRequiresPush. *)

StrategyDecision(builder, reason, applied) ==
    [builder |-> builder, reason |-> reason, constraintsApplied |-> applied]

\* decideBuilder with a seeded fault: docker.sock is looked at first
decideBuilder_SockFirst(constraints, preferredArg) ==
    IF constraints.dockerSockForbidden
    THEN StrategyDecision(B_kaniko, "docker.sock mount forbidden by policy; Kaniko required.",
                          <<"dockerSockForbidden=true">>)
    ELSE IF ~constraints.dockerDaemonAllowed
    THEN StrategyDecision(B_kaniko, "Docker daemon not allowed/available; Kaniko required.",
                          <<"dockerDaemonAllowed=false">>)
    ELSE IF ~constraints.privilegedAllowed
    THEN StrategyDecision(B_kaniko, "Privileged mode not allowed; Kaniko required.",
                          <<"privilegedAllowed=false">>)
    ELSE StrategyDecision(IF preferredArg.set THEN preferredArg.s ELSE B_buildx,
                          "Buildx permitted; preferred for speed/caching.",
                          <<"buildxPreferred">>)

\* decideBuilder(constraints, preferred = "buildx")
decideBuilder(constraints, preferredArg) ==
    LET preferred == IF preferredArg.set THEN preferredArg.s ELSE B_buildx
    IN  IF ~constraints.dockerDaemonAllowed
        THEN StrategyDecision(B_kaniko, "Docker daemon not allowed/available; Kaniko required.",
                              <<"dockerDaemonAllowed=false">>)
        ELSE IF ~constraints.privilegedAllowed
        THEN StrategyDecision(B_kaniko, "Privileged mode not allowed; Kaniko required.",
                              <<"privilegedAllowed=false">>)
        ELSE IF constraints.dockerSockForbidden
        THEN StrategyDecision(B_kaniko, "docker.sock mount forbidden by policy; Kaniko required.",
                              <<"dockerSockForbidden=true">>)
        ELSE StrategyDecision(preferred, "Buildx permitted; preferred for speed/caching.",
                              <<"buildxPreferred">>)

RunnerConstraints ==
    [dockerDaemonAllowed : BOOLEAN, privilegedAllowed : BOOLEAN, dockerSockForbidden : BOOLEAN]

\* the arguments a caller passes to the two functions
InitStrategy ==
    /\ stConstraints \in RunnerConstraints
    /\ stPreferred \in {Unset, SetTo(B_buildx), SetTo(B_kaniko)}
    /\ stMode \in {M_dry_run, M_build_only, M_build_and_push}
    /\ stDecision = NotYet
    /\ stPush = NotYet
    /\ ValidatorIdle /\ TagIdle
    /\ InputsIdle /\ EvidenceIdle /\ CacheIdle /\ SmokeIdle

\* a call of decideBuilder
CallDecideBuilder ==
    /\ stDecision = NotYet
    /\ stDecision' = decideBuilder(stConstraints, stPreferred)
    /\ UNCHANGED <<stConstraints, stPreferred, stMode, stPush>>
    /\ UNCHANGED notStrategy

\* a call of modeRequiresPush
CallModeRequiresPush ==
    /\ stPush = NotYet
    /\ stPush' = [value |-> modeRequiresPush(stMode)]
    /\ UNCHANGED <<stConstraints, stPreferred, stMode, stDecision>>
    /\ UNCHANGED notStrategy

NextStrategy ==
    \/ CallDecideBuilder
    \/ CallModeRequiresPush

SpecStrategy == InitStrategy /\ [][NextStrategy]_vars

-----------------------------------------------------------------------------
(* Claim C24: the builder decision. *)

\* decideBuilder has returned
Decided == stDecision # NotYet

\* the constraints in the order daemon, privileged, docker.sock, each with its entry
ViolationNames ==
    <<"dockerDaemonAllowed=false", "privilegedAllowed=false", "dockerSockForbidden=true">>

\* the positions of the violated constraints
Violated ==
    {i \in 1..3 : \/ i = 1 /\ ~stConstraints.dockerDaemonAllowed
                  \/ i = 2 /\ ~stConstraints.privilegedAllowed
                  \/ i = 3 /\ stConstraints.dockerSockForbidden}

\* C24: decideBuilder returns kaniko whenever the daemon is not allowed, or privileged
\* mode is not allowed, or the docker.sock mount is forbidden, whatever the preferred
\* builder; it returns the preferred builder (default buildx) only when all three permit
\* it; constraintsApplied has exactly one entry, the first violated constraint in the
\* order daemon, privileged, docker.sock, or 'buildxPreferred' when none is violated.
C24_BuilderDecision ==
    Decided =>
        /\ Violated # {} => stDecision.builder = B_kaniko
        /\ Violated = {} =>
               stDecision.builder = (IF stPreferred.set THEN stPreferred.s ELSE B_buildx)
        /\ Len(stDecision.constraintsApplied) = 1
        /\ stDecision.constraintsApplied[1] =
               (IF Violated # {} THEN ViolationNames[First(Violated)] ELSE "buildxPreferred")

\* buildx was preferred, the daemon is missing and docker.sock is forbidden: kaniko,
\* with the daemon named
C24_Witness ==
    /\ Decided
    /\ stPreferred = SetTo(B_buildx)
    /\ Violated = {1, 3}
    /\ stDecision.builder = B_kaniko
    /\ stDecision.constraintsApplied = <<"dockerDaemonAllowed=false">>

\* nothing is violated and kaniko was preferred: kaniko, with 'buildxPreferred'
C24_WitnessPreferred ==
    /\ Decided
    /\ Violated = {}
    /\ stPreferred = SetTo(B_kaniko)
    /\ stDecision.builder = B_kaniko
    /\ stDecision.constraintsApplied = <<"buildxPreferred">>

-----------------------------------------------------------------------------
(* The build evidence exporter (.audit/PIPE-BUILD). *)

\* an environment variable compared as a whole: absent, or present with value x
NoVar == [set |-> FALSE, v |-> ""]
Var(x) == [set |-> TRUE, v |-> x]

\* process.env[name] || fallback
envOrElse(e, name, fallback) == IF e[name].set /\ e[name].v # "" THEN e[name].v ELSE fallback

\* process.env[name] === value
envIs(e, name, value) == e[name].set /\ e[name].v = value

\* x || null
OrNullText(x) == IF x = "" THEN "null" ELSE x

\* the three ran flags and exit codes as main() reads them
Stages(e) ==
    [lintRan |-> envIs(e, "INPUT_LINT_RAN", "true"),
     testRan |-> envIs(e, "INPUT_TEST_RAN", "true"),
     buildRan |-> envIs(e, "INPUT_BUILD_RAN", "true"),
     lintExit |-> envOrElse(e, "INPUT_LINT_EXIT_CODE", ""),
     testExit |-> envOrElse(e, "INPUT_TEST_EXIT_CODE", ""),
     buildExit |-> envOrElse(e, "INPUT_BUILD_EXIT_CODE", "")]

RanText(ran) == IF ran THEN "ran" ELSE "skipped"

StageVerdict(ran, exit) == IF ran THEN (IF exit = "0" THEN "pass" ELSE "fail") ELSE "skipped"

\* const overall = ...
overall(st) ==
    IF \/ st.buildRan /\ st.buildExit # "0"
       \/ st.testRan /\ st.testExit # "0"
       \/ st.lintRan /\ st.lintExit # "0"
    THEN "fail" ELSE "pass"

\* artifactPathsRaw ? artifactPathsRaw.split(",").map(trim).filter(Boolean) : []
artifactPaths(e) ==
    LET raw == Trim(IF e.INPUT_ARTIFACT_PATHS.set THEN e.INPUT_ARTIFACT_PATHS.s ELSE <<>>)
        parts == Split(raw, ",")
        trimmed == [i \in 1..Len(parts) |-> Trim(parts[i])]
    IN  IF raw = <<>> THEN <<>> ELSE SelectSeq(trimmed, LAMBDA t : t # <<>>)

EvidenceFileNames ==
    {"metadata.json", "runtime.json", "commands.json", "results.json",
     "artifact-summary.json", "logs/lint.log", "logs/test.log", "logs/build.log"}

RanValues == {NoVar, Var("true"), Var("false")}

ExitValues == {NoVar, Var("0"), Var("1")}

\* "dist, build"
Paths_two == <<"d", "i", "s", "t", ",", " ", "b", "u", "i", "l", "d">>

\* what the workflow passes to the exporter; logs holds the stages whose log file exists
InitEvidence ==
    /\ \E lintRan \in RanValues, testRan \in RanValues, buildRan \in RanValues,
          lintExit \in ExitValues, testExit \in ExitValues,
          buildExit \in ExitValues \cup {Var("")},
          logs \in {{}, {"lint", "build"}}, paths \in {Unset, SetTo(Paths_two)} :
           evEnv = [INPUT_STACK |-> Var("node"), INPUT_RUNTIME_USED |-> Var("20"),
                    INPUT_TOOLCHAIN |-> Var("npm"), INPUT_WORKING_DIRECTORY |-> NoVar,
                    INPUT_LINT_RAN |-> lintRan, INPUT_TEST_RAN |-> testRan,
                    INPUT_BUILD_RAN |-> buildRan, INPUT_LINT_EXIT_CODE |-> lintExit,
                    INPUT_TEST_EXIT_CODE |-> testExit, INPUT_BUILD_EXIT_CODE |-> buildExit,
                    INPUT_ARTIFACT_PATHS |-> paths, logs |-> logs]
    /\ evPc = "start"
    /\ evFiles = [f \in EvidenceFileNames |-> NotYet]
    /\ evOutput = <<>>
    /\ ValidatorIdle /\ TagIdle
    /\ InputsIdle /\ StrategyIdle /\ CacheIdle /\ SmokeIdle

\* jsonWrite of metadata.json, runtime.json and commands.json
WriteMetadata ==
    /\ evPc = "start"
    /\ LET st == Stages(evEnv)
       IN  evFiles' = [evFiles EXCEPT
               !["metadata.json"] = [stack |-> evEnv.INPUT_STACK.v,
                                     toolchain |-> evEnv.INPUT_TOOLCHAIN.v,
                                     workingDirectory |->
                                         envOrElse(evEnv, "INPUT_WORKING_DIRECTORY", ".")],
               !["runtime.json"] = [stack |-> evEnv.INPUT_STACK.v,
                                    runtimeUsed |-> evEnv.INPUT_RUNTIME_USED.v,
                                    toolchain |-> evEnv.INPUT_TOOLCHAIN.v],
               !["commands.json"] = [lint |-> RanText(st.lintRan), test |-> RanText(st.testRan),
                                     build |-> RanText(st.buildRan)]]
    /\ evPc' = "results"
    /\ UNCHANGED <<evEnv, evOutput>>
    /\ UNCHANGED notEvidence

\* jsonWrite("results.json", { overall, exitCodes, verdict })
WriteResults ==
    /\ evPc = "results"
    /\ LET st == Stages(evEnv)
       IN  evFiles' = [evFiles EXCEPT
               !["results.json"] =
                   [overall |-> overall(st),
                    exitCodes |-> [lint |-> OrNullText(st.lintExit),
                                   test |-> OrNullText(st.testExit),
                                   build |-> OrNullText(st.buildExit)],
                    verdict |-> [lint |-> StageVerdict(st.lintRan, st.lintExit),
                                 test |-> StageVerdict(st.testRan, st.testExit),
                                 build |-> StageVerdict(st.buildRan, st.buildExit)]]]
    /\ evPc' = "logs"
    /\ UNCHANGED <<evEnv, evOutput>>
    /\ UNCHANGED notEvidence

\* copy the logs that exist into .audit
CopyLogs ==
    /\ evPc = "logs"
    /\ evFiles' = [f \in EvidenceFileNames |->
                      IF \E stage \in evEnv.logs : f = "logs/" \o stage \o ".log"
                      THEN [copied |-> TRUE] ELSE evFiles[f]]
    /\ evPc' = "summary"
    /\ UNCHANGED <<evEnv, evOutput>>
    /\ UNCHANGED notEvidence

\* jsonWrite("artifact-summary.json", ...)
WriteArtifactSummary ==
    /\ evPc = "summary"
    /\ evFiles' = [evFiles EXCEPT
           !["artifact-summary.json"] = [artifactPaths |-> artifactPaths(evEnv),
                                         artifactCount |-> Len(artifactPaths(evEnv))]]
    /\ evPc' = "output"
    /\ UNCHANGED <<evEnv, evOutput>>
    /\ UNCHANGED notEvidence

\* setOutput("audit_bundle_path", ".audit/PIPE-BUILD")
SetBundleOutput ==
    /\ evPc = "output"
    /\ evOutput' = Append(evOutput, <<"audit_bundle_path", ".audit/PIPE-BUILD">>)
    /\ evPc' = "done"
    /\ UNCHANGED <<evEnv, evFiles>>
    /\ UNCHANGED notEvidence

NextEvidence ==
    \/ WriteMetadata
    \/ WriteResults
    \/ CopyLogs
    \/ WriteArtifactSummary
    \/ SetBundleOutput

SpecEvidence == InitEvidence /\ [][NextEvidence]_vars

-----------------------------------------------------------------------------
(* Claim C25: the overall verdict of the build evidence. *)

\* results.json was written
ResultsWritten == evPc # "idle" /\ evFiles["results.json"] # NotYet

\* the stage ran and exited with code 0
Succeeded(ran, exit) == envIs(evEnv, ran, "true") /\ envIs(evEnv, exit, "0")

\* the stage did not run
Skipped(ran) == ~envIs(evEnv, ran, "true")

\* C25: the overall verdict is 'pass' only if Build ran and succeeded (exit code 0) and
\* each of Test and Lint either succeeded or was skipped; in every other case, including
\* when Build did not run, it is 'fail'.
C25_OverallVerdict ==
    ResultsWritten =>
        evFiles["results.json"].overall =
            (IF /\ Succeeded("INPUT_BUILD_RAN", "INPUT_BUILD_EXIT_CODE")
                /\ Succeeded("INPUT_TEST_RAN", "INPUT_TEST_EXIT_CODE") \/ Skipped("INPUT_TEST_RAN")
                /\ Succeeded("INPUT_LINT_RAN", "INPUT_LINT_EXIT_CODE") \/ Skipped("INPUT_LINT_RAN")
             THEN "pass" ELSE "fail")

\* what the exporter computes: 'fail' exactly when a stage that ran did not exit 0
C25_FailOnlyOnFailedStage ==
    ResultsWritten =>
        (evFiles["results.json"].overall = "fail" <=>
            \E stage \in {"lint", "test", "build"} :
                evFiles["results.json"].verdict[stage] = "fail")

-----------------------------------------------------------------------------
(* container-cache-config.  kaniko_cache_args is kept as the sequence of its
   space-separated arguments. *)

\* env(name, fallback): process.env[name] ?? fallback
envNullish(e, name, fallback) == IF e[name].set THEN e[name].v ELSE fallback

\* the constants read at the top of the script
CacheInputs(e) ==
    [builder |-> envNullish(e, "INPUT_BUILDER", ""),
     cacheEnabled |-> envNullish(e, "INPUT_CACHE_ENABLED", "true") = "true",
     cacheMode |-> envNullish(e, "INPUT_CACHE_MODE", "gha"),
     cacheRepo |-> envNullish(e, "INPUT_CACHE_REPO", ""),
     allowWrite |-> envNullish(e, "INPUT_ALLOW_CACHE_WRITE", "true") = "true",
     cacheScope |-> Trim(IF e.INPUT_CACHE_SCOPE.set THEN e.INPUT_CACHE_SCOPE.s ELSE <<>>),
     dockerfile |-> envNullish(e, "INPUT_DOCKERFILE", "Dockerfile")]

\* the outputs of a disabled cache
DisabledOutputs ==
    <<<<"cache_enabled", "false">>, <<"cache_mode", "disabled">>, <<"cache_repo", "">>,
      <<"cache_from", "">>, <<"cache_to", "">>, <<"kaniko_cache_args", <<"--cache=false">>>>,
      <<"cache_key", "">>>>

\* the first 16 hex digits of the SHA-256 of repo|dockerfile|scope, left uncomputed
cacheKey(e, l) ==
    [sha256_16_of |-> <<envNullish(e, "GITHUB_REPOSITORY", "local"), l.dockerfile,
                        IF l.cacheScope = <<>> THEN <<"d", "e", "f", "a", "u", "l", "t">>
                        ELSE l.cacheScope>>]

\* the kaniko arguments with a seeded fault: the read-only flag is never added
kanikoArgs_AlwaysWrite(allowWrite, cacheRepo) == <<"--cache=true", "--cache-repo=" \o cacheRepo>>

\* kanikoArgs for builder kaniko
kanikoArgs(allowWrite, cacheRepo) ==
    IF allowWrite THEN <<"--cache=true", "--cache-repo=" \o cacheRepo>>
    ELSE <<"--cache=true", "--cache-repo=" \o cacheRepo, "--cache-readonly=true">>

ccFail(msg) ==
    /\ ccExit' = "1"
    /\ ccPc' = "done"
    /\ ccLocals' = [ccLocals EXCEPT !.error = msg]

ccEmit(pairs, notices) ==
    /\ ccOut' = ccOut \o pairs
    /\ ccNotices' = ccNotices \o notices

\* read the inputs; unsupported builder
CheckBuilder ==
    /\ ccPc = "start"
    /\ LET l == CacheInputs(ccEnv) @@ [error |-> "", cacheFrom |-> "", cacheTo |-> "",
                                       kanikoArgs |-> <<>>, key |-> NotYet]
       IN  IF l.builder \notin {"buildx", "kaniko"}
           THEN /\ ccLocals' = [l EXCEPT !.error = "unsupported builder"]
                /\ ccExit' = "1"
                /\ ccPc' = "done"
           ELSE /\ ccLocals' = l
                /\ ccPc' = "enabled"
                /\ UNCHANGED ccExit
    /\ UNCHANGED <<ccEnv, ccOut, ccNotices>>
    /\ UNCHANGED notCache

\* if (!cacheEnabled): the outputs of a disabled cache, exit 0
CheckEnabled ==
    /\ ccPc = "enabled"
    /\ IF ~ccLocals.cacheEnabled
       THEN /\ ccEmit(DisabledOutputs, <<>>)
            /\ ccExit' = "0"
            /\ ccPc' = "done"
       ELSE /\ ccPc' = "kaniko_rules"
            /\ UNCHANGED <<ccOut, ccNotices, ccExit>>
    /\ UNCHANGED <<ccEnv, ccLocals>>
    /\ UNCHANGED notCache

\* Enforce Kaniko rules
KanikoRules ==
    /\ ccPc = "kaniko_rules"
    /\ IF ccLocals.builder = "kaniko"
       THEN /\ ccLocals' = [ccLocals EXCEPT !.cacheMode = "registry"]
            /\ IF ccLocals.cacheRepo = ""
               THEN /\ ccEmit(DisabledOutputs, <<"Kaniko cache enabled but cache_repo empty">>)
                    /\ ccExit' = "0"
                    /\ ccPc' = "done"
               ELSE /\ ccPc' = "key"
                    /\ UNCHANGED <<ccOut, ccNotices, ccExit>>
       ELSE /\ ccPc' = "key"
            /\ UNCHANGED <<ccLocals, ccOut, ccNotices, ccExit>>
    /\ UNCHANGED ccEnv
    /\ UNCHANGED notCache

\* Build cache key; cacheFrom, cacheTo and kanikoArgs get their first values
BuildCacheKey ==
    /\ ccPc = "key"
    /\ ccLocals' = [ccLocals EXCEPT !.key = cacheKey(ccEnv, ccLocals), !.cacheFrom = "",
                                    !.cacheTo = "", !.kanikoArgs = <<"--cache=true">>]
    /\ ccPc' = "buildx"
    /\ UNCHANGED <<ccEnv, ccOut, ccNotices, ccExit>>
    /\ UNCHANGED notCache

\* if (builder === "buildx")
BuildxCache ==
    /\ ccPc = "buildx"
    /\ LET l == ccLocals
       IN  IF l.builder # "buildx"
           THEN /\ ccPc' = "kaniko_args"
                /\ UNCHANGED <<ccLocals, ccNotices, ccExit>>
           ELSE IF l.cacheMode \notin {"gha", "registry"}
           THEN /\ ccFail("buildx cache_mode must be gha|registry")
                /\ UNCHANGED ccNotices
           ELSE IF l.cacheMode = "gha"
           THEN /\ ccLocals' = [l EXCEPT !.cacheFrom = "type=gha",
                                         !.cacheTo = IF l.allowWrite THEN "type=gha,mode=max"
                                                     ELSE ""]
                /\ ccNotices' = IF l.allowWrite THEN ccNotices
                                ELSE Append(ccNotices, "Cache writes disabled")
                /\ ccPc' = "kaniko_args"
                /\ UNCHANGED ccExit
           ELSE IF l.cacheRepo = ""
           THEN /\ ccFail("cache_mode=registry requires cache_repo")
                /\ UNCHANGED ccNotices
           ELSE /\ ccLocals' = [l EXCEPT
                       !.cacheFrom = "type=registry,ref=" \o l.cacheRepo,
                       !.cacheTo = IF l.allowWrite
                                   THEN "type=registry,ref=" \o l.cacheRepo \o ",mode=max"
                                   ELSE ""]
                /\ ccNotices' = IF l.allowWrite THEN ccNotices
                                ELSE Append(ccNotices, "Registry cache writes disabled")
                /\ ccPc' = "kaniko_args"
                /\ UNCHANGED ccExit
    /\ UNCHANGED <<ccEnv, ccOut>>
    /\ UNCHANGED notCache

\* if (builder === "kaniko")
KanikoArgs ==
    /\ ccPc = "kaniko_args"
    /\ ccLocals' = IF ccLocals.builder = "kaniko"
                   THEN [ccLocals EXCEPT
                            !.kanikoArgs = kanikoArgs(ccLocals.allowWrite, ccLocals.cacheRepo)]
                   ELSE ccLocals
    /\ ccPc' = "emit"
    /\ UNCHANGED <<ccEnv, ccOut, ccNotices, ccExit>>
    /\ UNCHANGED notCache

\* the seven outputs of an enabled cache; the script ends
EmitCacheOutputs ==
    /\ ccPc = "emit"
    /\ ccEmit(<<<<"cache_enabled", "true">>,
                <<"cache_mode", IF ccLocals.builder = "kaniko" THEN "registry"
                                ELSE ccLocals.cacheMode>>,
                <<"cache_repo", ccLocals.cacheRepo>>,
                <<"cache_from", ccLocals.cacheFrom>>,
                <<"cache_to", ccLocals.cacheTo>>,
                <<"kaniko_cache_args", ccLocals.kanikoArgs>>,
                <<"cache_key", ccLocals.key>>>>, <<>>)
    /\ ccExit' = "0"
    /\ ccPc' = "done"
    /\ UNCHANGED <<ccEnv, ccLocals>>
    /\ UNCHANGED notCache

\* " node "
Scope_node == <<" ", "n", "o", "d", "e", " ">>

\* the inputs of the action
InitCache ==
    /\ \E builder \in {NoVar, Var("buildx"), Var("kaniko"), Var("docker")},
          enabled \in {NoVar, Var("true"), Var("false")},
          mode \in {NoVar, Var("gha"), Var("registry"), Var("s3"), Var("")},
          repo \in {NoVar, Var(""), Var("ghcr.io/org/cache")},
          allow \in {NoVar, Var("true"), Var("false"), Var("")},
          scope \in {Unset, SetTo(Scope_node)} :
           ccEnv = [INPUT_BUILDER |-> builder, INPUT_CACHE_ENABLED |-> enabled,
                    INPUT_CACHE_MODE |-> mode, INPUT_CACHE_REPO |-> repo,
                    INPUT_ALLOW_CACHE_WRITE |-> allow, INPUT_CACHE_SCOPE |-> scope,
                    INPUT_DOCKERFILE |-> NoVar, GITHUB_REPOSITORY |-> Var("org/svc")]
    /\ ccPc = "start"
    /\ ccLocals = NotYet
    /\ ccOut = <<>>
    /\ ccNotices = <<>>
    /\ ccExit = "none"
    /\ ValidatorIdle /\ TagIdle
    /\ InputsIdle /\ StrategyIdle /\ EvidenceIdle /\ SmokeIdle

NextCache ==
    \/ CheckBuilder
    \/ CheckEnabled
    \/ KanikoRules
    \/ BuildCacheKey
    \/ BuildxCache
    \/ KanikoArgs
    \/ EmitCacheOutputs

SpecCache == InitCache /\ [][NextCache]_vars

-----------------------------------------------------------------------------
(* Claim C26: no cache write when allow_cache_write is false. *)

\* the outputs were emitted
Emitted == ccOut # <<>>

\* the emitted value of an output
CacheOut(key) == ccOut[CHOOSE i \in 1..Len(ccOut) : ccOut[i][1] = key][2]

\* allow_cache_write is given and is not "true"
WriteForbidden ==
    ccEnv.INPUT_ALLOW_CACHE_WRITE.set /\ ccEnv.INPUT_ALLOW_CACHE_WRITE.v # "true"

Builder == ccEnv.INPUT_BUILDER.v

ReadOnly == \E i \in 1..Len(CacheOut("kaniko_cache_args")) :
                CacheOut("kaniko_cache_args")[i] = "--cache-readonly=true"

\* caching is off, or cache_repo is empty
CachingOffOrNoRepo ==
    \/ ccEnv.INPUT_CACHE_ENABLED.set /\ ccEnv.INPUT_CACHE_ENABLED.v # "true"
    \/ ~ccEnv.INPUT_CACHE_REPO.set
    \/ ccEnv.INPUT_CACHE_REPO.v = ""

\* for kaniko the cache mode is never gha: registry, or disabled when caching is off or
\* cache_repo is empty
KanikoModes ==
    Emitted /\ Builder = "kaniko" =>
        /\ CacheOut("cache_mode") \in {"registry", "disabled"}
        /\ CacheOut("cache_mode") = "disabled" <=> CachingOffOrNoRepo

\* C26: container-cache-config never enables cache writes when allow_cache_write is
\* false: for buildx (gha or registry mode) cache_to is empty while cache_from is still
\* set, and for kaniko the cache args include --cache-readonly=true; and for builder
\* kaniko the emitted cache_mode is never 'gha' (it is 'registry', or 'disabled' when
\* caching is off or cache_repo is empty).
C26_NoCacheWrite ==
    /\ Emitted /\ WriteForbidden =>
          /\ Builder = "buildx" /\ CacheOut("cache_mode") \in {"gha", "registry"} =>
                 CacheOut("cache_to") = "" /\ CacheOut("cache_from") # ""
          /\ Builder = "kaniko" => ReadOnly
    /\ KanikoModes

\* C26 amended: as C26, with the kaniko arguments read-only where the cache is on
\* (cache_mode registry) and --cache=false where it is disabled; cache_to is empty for
\* either builder.
C26_NoCacheWriteWhileCaching ==
    /\ Emitted /\ WriteForbidden =>
          /\ CacheOut("cache_to") = ""
          /\ Builder = "buildx" /\ CacheOut("cache_mode") \in {"gha", "registry"} =>
                 CacheOut("cache_from") # ""
          /\ Builder = "kaniko" =>
                 IF CacheOut("cache_mode") = "registry" THEN ReadOnly
                 ELSE CacheOut("kaniko_cache_args") = <<"--cache=false">>
    /\ KanikoModes

\* kaniko with a cache repository and allow_cache_write=false: read-only arguments,
\* cache_mode registry although gha was asked for
C26_Witness ==
    /\ Emitted /\ WriteForbidden
    /\ Builder = "kaniko"
    /\ ccEnv.INPUT_CACHE_MODE = Var("gha")
    /\ CacheOut("cache_mode") = "registry"
    /\ ReadOnly

\* buildx in registry mode with allow_cache_write=false: cache_from set, cache_to empty
C26_WitnessBuildx ==
    /\ Emitted /\ WriteForbidden
    /\ Builder = "buildx"
    /\ CacheOut("cache_mode") = "registry"
    /\ CacheOut("cache_from") = "type=registry,ref=ghcr.io/org/cache"
    /\ CacheOut("cache_to") = ""

-----------------------------------------------------------------------------
(* The smoke runner.  spawnSync blocks until the command has ended; status is its exit
   code, or "null" when a signal ended it. *)

StepNames == <<"install", "lint", "test", "build">>

\* the statement after runStep(step): the next runStep, or the final log line
AfterStep(step) ==
    CASE step = "install" -> "lint"
      [] step = "lint" -> "test"
      [] step = "test" -> "build"
      [] step = "build" -> "end"

\* the condition under which the step is run
StepWanted(r, step) ==
    CASE step = "lint" -> "flags" \in DOMAIN r /\ r.flags.runLint
      [] step = "test" -> "flags" \in DOMAIN r /\ r.flags.runTests
      [] OTHER -> TRUE

\* String(resolved?.commands?.[step] || "")
StepCommand(r, step) ==
    IF "commands" \in DOMAIN r /\ step \in DOMAIN r.commands
    THEN r.commands[step] ELSE ""

\* the test after the log is written, with a seeded fault: only exit code 1 fails
stepFailed_OnlyOne(status) == status = "1"

\* res.status !== 0
stepFailed(status) == status # "0"

Statuses == {"0", "1", "null"}

At(at, phase) == [at |-> at, phase |-> phase]

smFail(msg) ==
    /\ smExit' = "1"
    /\ smPc' = At("done", msg)

\* the checks before any step, and metadata.json
Preflight ==
    /\ smPc = At("start", "none")
    /\ IF ~(smEnv.STACK.set /\ smEnv.STACK.v # "") THEN smFail("STACK env missing") /\ UNCHANGED smFiles
       ELSE IF ~(smEnv.EXAMPLE_DIR.set /\ smEnv.EXAMPLE_DIR.v # "")
       THEN smFail("EXAMPLE_DIR env missing") /\ UNCHANGED smFiles
       ELSE IF ~smEnv.resolvedExists
       THEN smFail("Resolved config not found") /\ UNCHANGED smFiles
       ELSE /\ smFiles' = smFiles \cup {"metadata.json"}
            /\ smPc' = At("install", "begin")
            /\ UNCHANGED smExit
    /\ UNCHANGED <<smEnv, smResolved, smRuns>>
    /\ UNCHANGED notSmoke

\* if (resolved?.flags?.runLint) / runTests is false: the step is passed over
SkipStep ==
    /\ smPc.phase = "begin"
    /\ ~StepWanted(smResolved, smPc.at)
    /\ smPc' = At(AfterStep(smPc.at), "begin")
    /\ UNCHANGED <<smEnv, smResolved, smFiles, smRuns, smExit>>
    /\ UNCHANGED notSmoke

\* runStep up to spawnSync: the step directory, command.txt, the command is started
StartStep ==
    /\ smPc.phase = "begin"
    /\ smPc.at \in {StepNames[i] : i \in 1..Len(StepNames)}
    /\ StepWanted(smResolved, smPc.at)
    /\ smFiles' = smFiles \cup {smPc.at \o "/command.txt"}
    /\ smRuns' = Append(smRuns, [step |-> smPc.at, cmd |-> StepCommand(smResolved, smPc.at),
                                 status |-> "running"])
    /\ smPc' = At(smPc.at, "spawned")
    /\ UNCHANGED <<smEnv, smResolved, smExit>>
    /\ UNCHANGED notSmoke

\* runStep from the return of spawnSync: command.log, then fail fast
FinishStep ==
    /\ smPc.phase = "spawned"
    /\ \E status \in Statuses :
        /\ smRuns' = [smRuns EXCEPT ![Len(smRuns)].status = status]
        /\ smFiles' = smFiles \cup {smPc.at \o "/command.log"}
        /\ IF stepFailed(status) THEN smFail("Step failed")
           ELSE smPc' = At(AfterStep(smPc.at), "begin") /\ UNCHANGED smExit
    /\ UNCHANGED <<smEnv, smResolved>>
    /\ UNCHANGED notSmoke

\* the final log line; the script ends
RunnerOk ==
    /\ smPc = At("end", "begin")
    /\ smExit' = "0"
    /\ smPc' = At("done", "OK")
    /\ UNCHANGED <<smEnv, smResolved, smFiles, smRuns>>
    /\ UNCHANGED notSmoke

\* resolved configurations: the four flag settings with or without a build command,
\* and one without flags
SmokeResolved ==
    {[flags |-> [runLint |-> l, runTests |-> t],
      commands |-> [install |-> "npm ci", lint |-> "npm run lint", test |-> "npm test",
                    build |-> b]] : l \in BOOLEAN, t \in BOOLEAN, b \in {"npm run build", ""}}
    \cup {[commands |-> [build |-> "make"]]}

InitSmoke ==
    /\ \E stack \in {NoVar, Var(""), Var("node")}, dir \in {NoVar, Var("examples/node")},
          exists \in BOOLEAN :
           smEnv = [STACK |-> stack, EXAMPLE_DIR |-> dir, resolvedExists |-> exists]
    /\ smResolved \in SmokeResolved
    /\ smPc = At("start", "none")
    /\ smFiles = {}
    /\ smRuns = <<>>
    /\ smExit = "none"
    /\ ValidatorIdle /\ TagIdle
    /\ InputsIdle /\ StrategyIdle /\ EvidenceIdle /\ CacheIdle

NextSmoke ==
    \/ Preflight
    \/ SkipStep
    \/ StartStep
    \/ FinishStep
    \/ RunnerOk

SpecSmoke == InitSmoke /\ [][NextSmoke]_vars

\* the script runs on, and every command it starts comes to an end
SpecSmokeLive == SpecSmoke /\ WF_vars(NextSmoke)

-----------------------------------------------------------------------------
(* Claim C27: order of the steps, fail fast, evidence of every started step. *)

\* the runner has exited
SmokeExited == smExit # "none"

\* the runner went past its checks and into the steps
Stepping == smPc.at \in {"install", "lint", "test", "build", "end"}

StepRank(step) == CHOOSE i \in 1..Len(StepNames) : StepNames[i] = step

\* the names of the steps started so far
StartedSteps == {smRuns[i].step : i \in 1..Len(smRuns)}

\* some step has ended with a status other than 0
SomeStepFailed == \E i \in 1..Len(smRuns) : smRuns[i].status \notin {"0", "running"}

StepsInOrder ==
    /\ \A i, j \in 1..Len(smRuns) : i < j => StepRank(smRuns[i].step) < StepRank(smRuns[j].step)
    /\ "lint" \in StartedSteps => smResolved.flags.runLint
    /\ "test" \in StartedSteps => smResolved.flags.runTests
    /\ \A i \in 1..Len(smRuns) :
           \A step \in {"install", "lint", "test"} :
               /\ StepRank(step) < StepRank(smRuns[i].step)
               /\ StepWanted(smResolved, step)
               => step \in StartedSteps

FailFast ==
    /\ \A i \in 1..(Len(smRuns) - 1) : smRuns[i].status = "0"
    /\ SomeStepFailed => smExit = "1"
    /\ SmokeExited /\ smRuns # <<>> /\ ~SomeStepFailed => smExit = "0"

StepEvidence ==
    /\ \A i \in 1..Len(smRuns) :
           /\ (smRuns[i].step \o "/command.txt") \in smFiles
           /\ smRuns[i].status # "running" => (smRuns[i].step \o "/command.log") \in smFiles
    /\ SmokeExited => \A i \in 1..Len(smRuns) : smRuns[i].status # "running"

BuildAttempted ==
    SmokeExited /\ smPc.phase \in {"OK", "Step failed"} =>
        "build" \in StartedSteps \/ SomeStepFailed

\* C27: the steps run in the order install, lint (only if flags.runLint), test (only if
\* flags.runTests), build; a step is started only after every earlier executed step
\* exited 0, and after a failing step the runner exits non-zero without another step;
\* command.txt and command.log of every started step are written before the runner
\* exits; a runner that has entered its steps comes to its exit, with build attempted
\* unless an earlier step failed.
C27_StepOrderAndEvidence ==
    /\ [](StepsInOrder /\ FailFast /\ StepEvidence /\ BuildAttempted)
    /\ Stepping ~> (SmokeExited /\ ("build" \in StartedSteps \/ SomeStepFailed))

\* lint was skipped, test ended on a signal: no build, both files of test, exit 1
C27_Witness ==
    /\ SmokeExited
    /\ [i \in 1..Len(smRuns) |-> <<smRuns[i].step, smRuns[i].status>>]
           = <<<<"install", "0">>, <<"test", "null">>>>
    /\ {"test/command.txt", "test/command.log"} \subseteq smFiles
    /\ smExit = "1"

\* all four steps ran and the runner exited 0
C27_WitnessAll ==
    /\ smExit = "0"
    /\ [i \in 1..Len(smRuns) |-> smRuns[i].step] = StepNames

-----------------------------------------------------------------------------
(* Claims C28, C29: the validator's verdict against the resolved configuration. *)

\* the run persisted a resolved configuration with its tool
ToolResolved == Reported /\ "tool" \in DOMAIN resolvedFile

\* C28: the tool checked by the allowlist rule is the tool the resolver writes to the
\* resolved tool.kind: for every document with a recognized stack and every matrix
\* entry, TOOL_NOT_ALLOWED is reported iff the resolved tool.kind is not in the stack's
\* allowed set; in particular it is not reported when the matrix supplies only a
\* build-tool default that is allowed.
C28_AllowlistChecksResolvedTool ==
    ToolResolved /\ StackKnown(rawConfig) =>
        (ToolNotAllowedReported <=>
            resolvedFile.tool.kind \notin stackToolAllowlist(rawConfig.stack.s))

\* what holds of the rule: it reports iff tool.kind, else the package-manager default, is
\* not allowed, and the resolved tool differs only where both are absent
C28_RuleIgnoresBuildToolDefault ==
    ToolResolved /\ StackKnown(rawConfig) =>
        /\ ToolNotAllowedReported <=> <<rawConfig.stack.s, EffectiveTool>> \notin AllowedPairs
        /\ EffectiveTool # "" => resolvedFile.tool.kind = EffectiveTool

\* C29: whenever the validator reports ok=true, the persisted build-config.resolved.json
\* is a fully resolved configuration: its stack is one of the five recognized stacks,
\* tool.kind is in that stack's allowed set, runtime.version is non-empty, and
\* commands.build is non-empty.
C29_OkMeansFullyResolved ==
    Reported /\ report.ok =>
        /\ outputs.validation_ok = "true"
        /\ "build-config.resolved.json" \in written
        /\ {"stack", "tool", "runtime", "commands"} \subseteq DOMAIN resolvedFile
        /\ resolvedFile.stack \in {"node", "python", "java", "dotnet", "go"}
        /\ <<resolvedFile.stack, resolvedFile.tool.kind>> \in AllowedPairs
        /\ resolvedFile.runtime.version # ""
        /\ NonBlank(resolvedFile.commands.build)

\* ok=true for a python document whose tool and version come from the matrix defaults
C29_Witness ==
    /\ Reported /\ report.ok
    /\ rawConfig.stack = StrName("python")
    /\ ~TruthyName(rawConfig.tool.kind)
    /\ resolvedFile.tool.kind = "poetry"
    /\ resolvedFile.runtime.version = "20"

-----------------------------------------------------------------------------
(* Claim C30: the two SHA-tag gates on the same tag list. *)

\* the tag policy evaluated for a push of the validator's TAGS, with this source SHA
PolicyOn(tagsRaw, githubSha) ==
    TagPolicy(TagEnv(SetTo(tagsRaw), SetTo(L_true), Unset, Unset, Unset, Unset, Unset,
                     githubSha, Unset))

\* the validator, in build_and_push, has made its SHA-tag check
ShaGateDone == PushAccepted /\ ciLocals.mode = M_build_and_push /\ ciPc # "sha"

\* the validator rejected the tag list for want of a SHA tag
ShaGateRejected ==
    /\ ciPc = "done" /\ ~ciLog.ok
    /\ ciLog.msg = "build_and_push requires an immutable SHA tag"

\* the tag policy fails the list with SHA_TAG_REQUIRED
PolicyRequiresSha(githubSha) ==
    LET p == PolicyOn(ciEnv.TAGS.s, githubSha)
    IN  \E k \in 1..Len(p.reasons) : p.reasons[k].code = "SHA_TAG_REQUIRED"

\* C30: for mode=build_and_push the two SHA-tag gates agree: a tag list passes the
\* container input validator's immutable-SHA-tag check if and only if the tag policy
\* evaluator detects a SHA tag in it, so no list accepted by one gate is rejected by the
\* other with SHA_TAG_REQUIRED.
C30_ShaGatesAgree ==
    ShaGateDone =>
        \A githubSha \in {Unset, SetTo(Sha_commit)} :
            /\ ~ShaGateRejected <=> PolicyOn(ciEnv.TAGS.s, githubSha).detectedSha.found # <<>>
            /\ ShaGateRejected <=> PolicyRequiresSha(githubSha)

====
